---- MODULE Spec2Model ----
(***************************************************************************)
(* Model of mynion: the Receiver Lambda (interfaces/slack/receiver.py and  *)
(* its older variant app/slack/receiver.py), its request verification and  *)
(* its response gate, the asynchronous hand-off to the Worker Lambda, the  *)
(* Worker (interfaces/slack/worker and its older variant app/slack/worker) *)
(* and the agent it calls through AgentCore Runtime (agent.py) with its    *)
(* Token Manager, and the OAuth callback Lambda                            *)
(* (interfaces/slack/oauth_callback).  The identity broker and the tokens  *)
(* it grants are the environment of the last two.                          *)
(*                                                                         *)
(* Conventions.  A Python str is a sequence of symbols: one-character     *)
(* strings where the code looks inside the str (texts, user ids,           *)
(* timestamps), so that substring tests and int() are computed, and one    *)
(* symbol for a str the code only passes on or compares as a whole.  A     *)
(* Python dict is a record whose DOMAIN is its key set.  None is the       *)
(* value None where a str is expected and NoneDict where a dict is.        *)
(* The hex digest of an HMAC is a symbolic term over (key, message) with   *)
(* a bit mask that says which bits differ from the true digest: two        *)
(* digests are equal iff the terms and the masks are equal.               *)
(***************************************************************************)
EXTENDS Integers, Sequences, FiniteSets, TLC

VARIABLES
    deployment,         \* which Receiver is deployed: "interfaces" or "app"
    clock,              \* wall clock, in ticks of 1/TicksPerSecond s (time.time())
    secret_store,       \* SecretString held by Secrets Manager for SLACK_SECRET_ARN
    environ,            \* os.environ of the Receiver process
    slack_credentials,  \* receiver.py global _slack_credentials
    bot_user_id,        \* receiver.py global _bot_user_id
    slack_thread,       \* authors of the messages of the Slack thread, oldest first
    request,            \* the event handed to the Receiver, or to the function called
    response,           \* what that invocation returned
    calls,              \* the calls that invocation made, in order
    worker_queue,       \* payloads accepted by Lambda for asynchronous invocation
    worker_inbox,       \* payloads Lambda has handed to a Worker invocation
    args,               \* arguments of the last direct call of a function
    result,             \* what that call returned
    worker_credentials, \* worker/handler.py global _slack_credentials
    worker_bot_id,      \* worker/handler.py global _bot_user_id
    token_cache,        \* agent.py OAuthTokenManager._token_cache: user_id -> token
    pending_auth_sessions, \* agent.py pending_auth_sessions: user_id -> auth_url
    slack_messages,     \* the messages the bot has posted to Slack, oldest first
    derived_sessions,   \* the session ids the Workers derived, with their threads
    expired_tokens,     \* the users whose cached token has passed its lifetime
    auth_sessions,      \* the users with an authorization session open at the broker
    token_vault         \* the users the broker holds a Google grant for

vars == <<deployment, clock, secret_store, environ, slack_credentials, bot_user_id,
          slack_thread, request, response, calls, worker_queue, worker_inbox,
          args, result, worker_credentials, worker_bot_id, token_cache,
          pending_auth_sessions, slack_messages, derived_sessions,
          expired_tokens, auth_sessions, token_vault>>

\* the state of the identity broker (AgentCore Identity) and of the tokens it
\* granted
identity_vars == <<expired_tokens, auth_sessions, token_vault>>

\* the state of the Worker, of the agent and of what they leave behind
worker_vars == <<worker_credentials, worker_bot_id, token_cache,
                 pending_auth_sessions, slack_messages, derived_sessions,
                 identity_vars>>

----------------------------------------------------------------------------
(* Bounds of the model *)

\* the clock starts at this second
Epoch == 1000
\* how many ticks the clock advances
MaxTicks == 2
\* timestamps are taken up to this many seconds on either side of the window edge
MaxSkew == 1
\* bits of the digest an altered signature may differ in: 1..MaxFlipBit
MaxFlipBit == 2
\* longest Slack thread
MaxThreadLen == 6
\* most payloads waiting in the asynchronous invocation queue
MaxQueue == 1

(* Program constants, and the resolution of the clock *)

\* 60 * 5, the replay window in seconds
ReplayWindow == 300
\* "limit": 5 of conversations.replies
RepliesLimit == 5
\* resolution of time.time() that the model keeps below one second
TicksPerSecond == 2

----------------------------------------------------------------------------
(* Python values *)

None == <<"None">>

NoneDict == [py_none |-> TRUE]

IsNoneDict(d) == "py_none" \in DOMAIN d

EmptyStr == <<>>

\* d.get(k, default)
Get(d, k, default) == IF k \in DOMAIN d THEN d[k] ELSE default

\* bool(s) of a str or None
Truthy(s) == s # None /\ s # EmptyStr

\* sub in s, for two str
Contains(s, sub) ==
    \E i \in 0..(Len(s) - Len(sub)) :
        \A j \in 1..Len(sub) : s[i + j] = sub[j]

\* a function result: returned value, or an exception raised
Return(v) == [exc |-> FALSE, ret |-> v]
Raise == [exc |-> TRUE, ret |-> FALSE]

Digit == {"0", "1", "2", "3", "4", "5", "6", "7", "8", "9"}

DigitVal(c) ==
    CASE c = "0" -> 0 [] c = "1" -> 1 [] c = "2" -> 2 [] c = "3" -> 3
      [] c = "4" -> 4 [] c = "5" -> 5 [] c = "6" -> 6 [] c = "7" -> 7
      [] c = "8" -> 8 [] c = "9" -> 9

DigitChar(n) ==
    CASE n = 0 -> "0" [] n = 1 -> "1" [] n = 2 -> "2" [] n = 3 -> "3"
      [] n = 4 -> "4" [] n = 5 -> "5" [] n = 6 -> "6" [] n = 7 -> "7"
      [] n = 8 -> "8" [] n = 9 -> "9"

RECURSIVE LStrip(_)
LStrip(s) == IF s # <<>> /\ Head(s) = " " THEN LStrip(Tail(s)) ELSE s

RECURSIVE RStrip(_)
RStrip(s) ==
    IF s # <<>> /\ s[Len(s)] = " " THEN RStrip(SubSeq(s, 1, Len(s) - 1)) ELSE s

\* value of a run of digits in which single underscores may separate digits
RECURSIVE DigitsVal(_, _)
DigitsVal(s, acc) ==
    IF s = <<>> THEN acc
    ELSE IF Head(s) = "_" THEN DigitsVal(Tail(s), acc)
    ELSE DigitsVal(Tail(s), 10 * acc + DigitVal(Head(s)))

DigitsOk(s) ==
    /\ s # <<>>
    /\ \A i \in 1..Len(s) : s[i] \in Digit \cup {"_"}
    /\ s[1] # "_" /\ s[Len(s)] # "_"
    /\ \A i \in 1..(Len(s) - 1) : ~(s[i] = "_" /\ s[i + 1] = "_")

\* int(s) of a str: surrounding blanks, an optional sign, digits; else ValueError
int(s) ==
    LET t == RStrip(LStrip(s))
        signed == t # <<>> /\ Head(t) \in {"+", "-"}
        body == IF signed THEN Tail(t) ELSE t
    IN  IF ~DigitsOk(body) THEN Raise
        ELSE IF signed /\ Head(t) = "-" THEN Return(0 - DigitsVal(body, 0))
        ELSE Return(DigitsVal(body, 0))

\* str(n) of an int n >= 0, as Slack writes X-Slack-Request-Timestamp
RECURSIVE str(_)
str(n) == IF n < 10 THEN <<DigitChar(n)>> ELSE Append(str(n \div 10), DigitChar(n % 10))

\* int(time.time())
current_timestamp == clock \div TicksPerSecond

\* one entry of the log of an invocation
L(fn, out) == [fn |-> fn, out |-> out]

----------------------------------------------------------------------------
(* Signatures *)

\* hmac.new(key, msg, hashlib.sha256).hexdigest()
hexdigest(key, msg) == [key |-> key, msg |-> msg, flip |-> 0]

\* the str prefix + digest; ascii is FALSE for a str with a non-ASCII character
SigStr(prefix, digest, ascii) == [prefix |-> prefix, digest |-> digest, ascii |-> ascii]

NoDigest == [key |-> EmptyStr, msg |-> <<>>, flip |-> 0]

EmptySig == SigStr("", NoDigest, TRUE)

\* f"v0:{slack_request_timestamp}:{body}"
sig_basestring(timestamp, body) == <<"v0:", timestamp, ":", body>>

\* a comparison that stops at the first MaxFlipBit - 1 bits of the digest
compare_digest_prefix(a, b) ==
    IF ~a.ascii \/ ~b.ascii THEN Raise
    ELSE Return(a.prefix = b.prefix /\ a.digest.key = b.digest.key
                /\ a.digest.msg = b.digest.msg
                /\ (a.digest.flip = b.digest.flip
                    \/ {a.digest.flip, b.digest.flip} \subseteq {0, MaxFlipBit}))

\* hmac.compare_digest(a, b) of two str: TypeError unless both are ASCII
compare_digest(a, b) ==
    IF ~a.ascii \/ ~b.ascii THEN Raise ELSE Return(a = b)

----------------------------------------------------------------------------
(* Credentials *)

\* the secret the Slack app signs with, and the bot token it issued
SigningSecret == <<"s3cr3t">>
BotToken == <<"xoxb">>

SecretFull == [SLACK_BOT_TOKEN |-> BotToken, SLACK_SIGNING_SECRET |-> SigningSecret]
SecretNoToken == [SLACK_SIGNING_SECRET |-> SigningSecret]
SecretEmpty == [OTHER_KEY |-> <<"x">>]

\* what secretsmanager_client.get_secret_value can do
SMOutcomes == {"ok", "error"}

\* get_slack_credentials(): the credentials returned, the cache afterwards, and
\* whether Secrets Manager was called
get_slack_credentials(cache, sm) ==
    IF ~IsNoneDict(cache)
    THEN [value |-> cache, cache |-> cache, called |-> FALSE]
    ELSE IF sm = "ok"
    THEN [value |-> secret_store, cache |-> secret_store, called |-> TRUE]
    ELSE [value |-> [SLACK_BOT_TOKEN |-> Get(environ, "SLACK_BOT_TOKEN", EmptyStr),
                     SLACK_SIGNING_SECRET |-> Get(environ, "SLACK_SIGNING_SECRET", EmptyStr)],
          cache |-> cache, called |-> TRUE]

----------------------------------------------------------------------------
(* Request Authenticator *)

abs(n) == IF n < 0 THEN 0 - n ELSE n

\* a freshness check that also turns away a timestamp at the edge of the window
timestamp_too_old_at_edge(now, timestamp) == abs(now - timestamp) >= ReplayWindow

\* abs(current_timestamp - int(slack_request_timestamp)) > 60 * 5
timestamp_too_old(now, timestamp) == abs(now - timestamp) > ReplayWindow

\* a request body: a str holding a JSON document (doc is what json.loads gives),
\* a str that is no JSON, or None
JsonBody(doc) == [kind |-> "json", doc |-> doc]
TextBody(doc) == [kind |-> "text", doc |-> doc]
NoneBody == [kind |-> "None", doc |-> NoneDict]
EmptyBody == TextBody([text |-> EmptyStr])

\* the headers API Gateway always passes besides those of the sender
NoHeaders == [Host |-> <<"api">>]

\* the body of the try block of verify_slack_request, reading the two headers
\* under the names sig_name and ts_name
verify_try_block(event, credentials, sig_name, ts_name) ==
    LET signing_secret == Get(credentials, "SLACK_SIGNING_SECRET", EmptyStr)
        headers == Get(event, "headers", NoHeaders)
    IN  IF signing_secret = EmptyStr THEN Return(FALSE)
        ELSE IF IsNoneDict(headers) THEN Raise
        ELSE
        LET slack_signature == Get(headers, sig_name, EmptySig)
            slack_request_timestamp == Get(headers, ts_name, EmptyStr)
        IN  IF slack_signature = EmptySig \/ slack_request_timestamp = EmptyStr
            THEN Return(FALSE)
            ELSE IF int(slack_request_timestamp).exc THEN Raise
            ELSE IF timestamp_too_old(current_timestamp, int(slack_request_timestamp).ret)
            THEN Return(FALSE)
            ELSE
            LET body == Get(event, "body", EmptyBody)
                computed_signature ==
                    SigStr("v0=",
                           hexdigest(signing_secret,
                                     sig_basestring(slack_request_timestamp, body)),
                           TRUE)
                same == compare_digest(computed_signature, slack_signature)
            IN  IF same.exc THEN Raise
                ELSE IF ~same.ret THEN Return(FALSE)
                ELSE Return(TRUE)

\* a verification without the except clause
verify_no_except(r) == r

\* try: ... except Exception: return False
verify_except(r) == IF r.exc THEN Return(FALSE) ELSE r

\* interfaces/slack/receiver.py
verify_slack_request(event, credentials) ==
    verify_except(verify_try_block(event, credentials,
                                   "X-Slack-Signature", "X-Slack-Request-Timestamp"))

\* app/slack/receiver.py
app_verify_slack_request(event, credentials) ==
    verify_except(verify_try_block(event, credentials,
                                   "x-slack-signature", "x-slack-request-timestamp"))

----------------------------------------------------------------------------
(* Slack Web API, as the Receiver uses it *)

\* the user id Slack gives the bot, a human user and another app's bot user
BotId == <<"U", "B">>
User1 == <<"U", "1">>
OtherBotUser == <<"U", "O">>

\* the thread Slack stores, and its channel
ThreadTs == <<"100.0">>
Channel == <<"C1">>

\* what auth.test can answer
AuthOutcomes == {"ok", "ok_false", "no_user_id", "http_error"}

\* SlackClient.get_bot_user_id() of the Receiver: the id returned or RuntimeError
\* raised, the cache afterwards and whether auth.test was called
get_bot_user_id(cache, api) ==
    IF cache # None
    THEN [exc |-> FALSE, ret |-> cache, cache |-> cache, called |-> FALSE]
    ELSE IF api = "ok"
    THEN [exc |-> FALSE, ret |-> BotId, cache |-> BotId, called |-> TRUE]
    ELSE [exc |-> TRUE, ret |-> EmptyStr, cache |-> cache, called |-> TRUE]

\* what conversations.replies can answer: up to "limit" messages of the thread
\* (its first ones or its latest ones), ok = false, or a failed request
RepliesOutcomes == {"first", "latest", "ok_false", "http_error"}

min(a, b) == IF a < b THEN a ELSE b

\* the "messages" of the API answer for (channel, thread_ts) with "limit": 5
ApiMessages(channel, thread_ts, api) ==
    LET n == Len(slack_thread)
        k == min(n, RepliesLimit)
    IN  IF channel # Channel \/ thread_ts # ThreadTs THEN <<>>
        ELSE IF api = "first" THEN SubSeq(slack_thread, 1, k)
        ELSE SubSeq(slack_thread, n - k + 1, n)

\* SlackClient.get_thread_replies(channel, thread_ts): the dict returned
get_thread_replies(channel, thread_ts, api) ==
    IF api \in {"ok_false", "http_error"}
    THEN [messages |-> <<>>]
    ELSE IF channel # Channel \/ thread_ts # ThreadTs
    THEN [messages |-> <<>>]
    ELSE [ok |-> TRUE, messages |-> ApiMessages(channel, thread_ts, api)]

\* a participation check that answers True when the lookup fails
is_bot_in_thread_fail_open(channel, thread_ts, bot, api) ==
    LET messages == Get(get_thread_replies(channel, thread_ts, api), "messages", <<>>)
    IN  \/ api \in {"ok_false", "http_error"}
        \/ \E i \in 1..Len(messages) : Get(messages[i], "user", None) = bot

\* is_bot_in_thread(slack_client, channel, thread_ts, bot_user_id)
is_bot_in_thread(channel, thread_ts, bot, api) ==
    LET messages == Get(get_thread_replies(channel, thread_ts, api), "messages", <<>>)
    IN  \E i \in 1..Len(messages) : Get(messages[i], "user", None) = bot

----------------------------------------------------------------------------
(* Response Gatekeeper of the Receiver *)

\* f"<@{bot_user_id}>"
Mention(bot) == <<"<", "@">> \o bot \o <<">">>

\* what should_respond gives: the value returned or an exception, and how many
\* thread lookups it made
Decide(v, n) == [exc |-> FALSE, ret |-> v, lookups |-> n]
DecideRaise == [exc |-> TRUE, ret |-> FALSE, lookups |-> 0]

\* a gate without the check of the author
should_respond_no_self_check(slack_event, bot, api) ==
    IF IsNoneDict(slack_event) THEN DecideRaise
    ELSE
    LET text == Get(slack_event, "text", EmptyStr)
        thread_ts == Get(slack_event, "thread_ts", None)
        channel == Get(slack_event, "channel", EmptyStr)
    IN  IF Truthy(Get(slack_event, "bot_id", None)) THEN Decide(FALSE, 0)
        ELSE IF text = None THEN DecideRaise
        ELSE IF Contains(text, Mention(bot)) THEN Decide(TRUE, 0)
        ELSE IF ~Truthy(thread_ts) THEN Decide(FALSE, 0)
        ELSE Decide(is_bot_in_thread(channel, thread_ts, bot, api), 1)

\* a gate that looks the thread up before it looks for the mention
should_respond_lookup_first(slack_event, bot, api) ==
    IF IsNoneDict(slack_event) THEN DecideRaise
    ELSE
    LET text == Get(slack_event, "text", EmptyStr)
        thread_ts == Get(slack_event, "thread_ts", None)
        channel == Get(slack_event, "channel", EmptyStr)
    IN  IF Get(slack_event, "user", None) = bot THEN Decide(FALSE, 0)
        ELSE IF Truthy(Get(slack_event, "bot_id", None)) THEN Decide(FALSE, 0)
        ELSE IF Truthy(thread_ts)
        THEN Decide(is_bot_in_thread(channel, thread_ts, bot, api), 1)
        ELSE IF text = None THEN DecideRaise
        ELSE Decide(Contains(text, Mention(bot)), 0)

\* a gate without the check of the bot_id marker
should_respond_no_bot_check(slack_event, bot, api) ==
    IF IsNoneDict(slack_event) THEN DecideRaise
    ELSE
    LET text == Get(slack_event, "text", EmptyStr)
        thread_ts == Get(slack_event, "thread_ts", None)
        channel == Get(slack_event, "channel", EmptyStr)
    IN  IF Get(slack_event, "user", None) = bot THEN Decide(FALSE, 0)
        ELSE IF text = None THEN DecideRaise
        ELSE IF Contains(text, Mention(bot)) THEN Decide(TRUE, 0)
        ELSE IF ~Truthy(thread_ts) THEN Decide(FALSE, 0)
        ELSE Decide(is_bot_in_thread(channel, thread_ts, bot, api), 1)

\* a gate that does not look at the author at all, as the Worker's
should_respond_any_author(slack_event, bot, api) ==
    IF IsNoneDict(slack_event) THEN DecideRaise
    ELSE
    LET text == Get(slack_event, "text", EmptyStr)
        thread_ts == Get(slack_event, "thread_ts", None)
        channel == Get(slack_event, "channel", EmptyStr)
    IN  IF text = None THEN DecideRaise
        ELSE IF Contains(text, Mention(bot)) THEN Decide(TRUE, 0)
        ELSE IF ~Truthy(thread_ts) THEN Decide(FALSE, 0)
        ELSE Decide(is_bot_in_thread(channel, thread_ts, bot, api), 1)

\* should_respond(slack_client, slack_event, bot_user_id) of the Receiver
should_respond(slack_event, bot, api) ==
    IF IsNoneDict(slack_event) THEN DecideRaise
    ELSE
    LET text == Get(slack_event, "text", EmptyStr)
        thread_ts == Get(slack_event, "thread_ts", None)
        channel == Get(slack_event, "channel", EmptyStr)
    IN  IF Get(slack_event, "user", None) = bot THEN Decide(FALSE, 0)
        ELSE IF Truthy(Get(slack_event, "bot_id", None)) THEN Decide(FALSE, 0)
        ELSE IF text = None THEN DecideRaise
        ELSE IF Contains(text, Mention(bot)) THEN Decide(TRUE, 0)
        ELSE IF ~Truthy(thread_ts) THEN Decide(FALSE, 0)
        ELSE Decide(is_bot_in_thread(channel, thread_ts, bot, api), 1)

----------------------------------------------------------------------------
(* Response Gatekeeper of the Worker (interfaces/slack/worker/handler.py) *)

\* is_bot_in_thread(slack_client, channel, thread_ts, bot_user_id) of the Worker,
\* over its own get_thread_replies, which is the Receiver's line for line
worker_is_bot_in_thread(channel, thread_ts, bot, api) ==
    LET messages == Get(get_thread_replies(channel, thread_ts, api), "messages", <<>>)
    IN  \E i \in 1..Len(messages) : Get(messages[i], "user", None) = bot

\* should_respond(slack_client, slack_event, bot_user_id, channel) of the Worker
worker_should_respond(slack_event, bot, channel, api) ==
    IF IsNoneDict(slack_event) THEN DecideRaise
    ELSE
    LET text == Get(slack_event, "text", EmptyStr)
        thread_ts == Get(slack_event, "thread_ts", None)
    IN  IF text = None THEN DecideRaise
        ELSE IF Contains(text, Mention(bot)) THEN Decide(TRUE, 0)
        ELSE IF ~Truthy(thread_ts) THEN Decide(FALSE, 0)
        ELSE Decide(worker_is_bot_in_thread(channel, thread_ts, bot, api), 1)

----------------------------------------------------------------------------
(* Requests the platform, or anyone else, can send *)

\* the header names as the sender wrote them, or lower-cased by a proxy
HeaderNames ==
    {[sig |-> "X-Slack-Signature", ts |-> "X-Slack-Request-Timestamp"],
     [sig |-> "x-slack-signature", ts |-> "x-slack-request-timestamp"]}

CanonicalNames == [sig |-> "X-Slack-Signature", ts |-> "X-Slack-Request-Timestamp"]
LowerNames == [sig |-> "x-slack-signature", ts |-> "x-slack-request-timestamp"]

\* the names the deployed Receiver reads
ReadNames == IF deployment = "interfaces" THEN CanonicalNames ELSE LowerNames

Headers(names, hasSig, sig, hasTs, ts) ==
    [k \in {"Host"} \cup (IF hasSig THEN {names.sig} ELSE {})
                    \cup (IF hasTs THEN {names.ts} ELSE {}) |->
        IF k = "Host" THEN <<"api">> ELSE IF k = names.sig THEN sig ELSE ts]

\* seconds from Epoch of the timestamps sent: now, and both edges of the window
Offsets ==
    {d \in (0 - ReplayWindow - MaxSkew)..(ReplayWindow + MaxSkew) :
        d = 0 \/ abs(d) >= ReplayWindow - MaxSkew}

\* timestamp headers: well-formed ones, and some that are not plain digits
Timestamps ==
    {str(Epoch + d) : d \in Offsets}
    \cup {EmptyStr, <<"1", "2", "a">>, <<" ">> \o str(Epoch), <<"-">> \o str(Epoch),
          <<"1", "_", "0", "0", "0">>, <<"1", "_", "_", "0">>}

\* what Slack sends as X-Slack-Signature when it signs with key
SlackSign(key, timestamp, body) ==
    SigStr("v0=", hexdigest(key, sig_basestring(timestamp, body)), TRUE)

\* sig with bit b of its digest flipped
FlipBit(sig, b) == [sig EXCEPT !.digest.flip = b]

\* another timestamp than ts, for a signature taken from another request
OtherTimestamp(ts) == IF ts = str(Epoch) THEN str(Epoch + 1) ELSE str(Epoch)

\* a request body: bodies whose content verification does not look into
PlainBodies == {TextBody([text |-> <<"a=b">>]), NoneBody}

OtherBody(b) == IF b = NoneBody THEN EmptyBody ELSE NoneBody

\* the signatures sent with (timestamp, body): the true one, and altered ones
Signatures(timestamp, body) ==
    LET good == SlackSign(SigningSecret, timestamp, body)
    IN  {good, EmptySig,
         SlackSign(<<"wr0ng">>, timestamp, body),
         SlackSign(SigningSecret, timestamp, OtherBody(body)),
         SlackSign(SigningSecret, OtherTimestamp(timestamp), body),
         SigStr("v1=", good.digest, TRUE),
         SigStr("", good.digest, TRUE),
         SigStr("v0=", good.digest, FALSE)}
        \cup {FlipBit(good, b) : b \in 1..MaxFlipBit}

ApiEvent(headers, body) == [httpMethod |-> <<"POST">>, headers |-> headers, body |-> body]

\* the API Gateway events verify_slack_request is called with
VerifyEvents ==
    {ApiEvent(NoneDict, NoneBody)}
    \cup UNION {{ApiEvent(Headers(n, hs, sg, ht, ts), b) :
                    n \in HeaderNames, hs \in BOOLEAN, ht \in BOOLEAN,
                    sg \in Signatures(ts, b)} :
                ts \in Timestamps, b \in PlainBodies}

----------------------------------------------------------------------------
(* The deployment *)

Deployments == {"interfaces", "app"}

SecretStores == {SecretFull, SecretNoToken, SecretEmpty}

Environs == {[PATH |-> <<"/bin">>],
             [PATH |-> <<"/bin">>, SLACK_BOT_TOKEN |-> BotToken,
              SLACK_SIGNING_SECRET |-> SigningSecret]}

NoCall == [fn |-> "none"]

\* a dict without keys, kept as a function
EmptyMap == [k \in {} |-> None]

\* nothing cached, nothing posted, no invocation of the agent yet
InitWorkerVars ==
    /\ worker_credentials = NoneDict
    /\ worker_bot_id = None
    /\ token_cache = EmptyMap
    /\ pending_auth_sessions = EmptyMap
    /\ slack_messages = <<>>
    /\ derived_sessions = {}
    /\ expired_tokens = {}
    /\ auth_sessions = {}

\* the state of a freshly started Receiver process
InitCommon ==
    /\ InitWorkerVars
    /\ deployment \in Deployments
    /\ clock = Epoch * TicksPerSecond
    /\ secret_store \in SecretStores
    /\ environ \in Environs
    /\ slack_credentials = NoneDict
    /\ bot_user_id = None
    /\ response = NoneDict
    /\ calls = <<>>
    /\ worker_queue = <<>>
    /\ worker_inbox = <<>>
    /\ args = NoCall
    /\ result = Return(FALSE)

\* time passes
Tick ==
    /\ args = NoCall
    /\ clock < Epoch * TicksPerSecond + MaxTicks
    /\ clock' = clock + 1
    /\ UNCHANGED <<deployment, secret_store, environ, slack_credentials, bot_user_id,
                   slack_thread, request, response, calls, worker_queue,
                   worker_inbox, args, result,
                   worker_vars>>

----------------------------------------------------------------------------
(* Slack events *)

\* a key the dict does not have
Absent == <<"absent">>

\* the dict of the str values of r, without the keys whose value is Absent
Dict(r) == [k \in {j \in DOMAIN r : r[j] # Absent} |-> r[k]]

SlackEvent(user, bot_id, text, thread_ts, ts) ==
    Dict([type |-> <<"message">>, channel |-> Channel, user |-> user, bot_id |-> bot_id,
          text |-> text, thread_ts |-> thread_ts, ts |-> ts])

\* message texts: a mention of the bot, of someone else, or a near miss of one,
\* alone or inside other words
Texts ==
    {pre \o core \o post :
        pre \in {<<>>, <<"h", "i", " ">>},
        core \in {<<>>, Mention(BotId), Mention(User1), <<"<", "@", "U", "B">>,
                  <<"@", "U", "B", ">">>, <<"U", "B">>, <<"<", "@", "U", "B", "X", ">">>},
        post \in {<<>>, <<" ", "y", "o">>}}

\* a thread of n messages by User1, but for the p-th, which is the bot's (p > 0)
ThreadOf(n, p) == [i \in 1..n |-> [user |-> IF i = p THEN BotId ELSE User1]]

Threads == {ThreadOf(n, p) : n \in 0..MaxThreadLen, p \in 0..MaxThreadLen}

\* the events should_respond is called with
GateEvents ==
    {NoneDict}
    \cup {SlackEvent(u, b, t, th, <<"200.0">>) :
            u \in {Absent, User1, BotId, OtherBotUser},
            b \in {Absent, EmptyStr, <<"B9">>},
            t \in Texts \cup {Absent, None},
            th \in {Absent, EmptyStr, ThreadTs, <<"999.0">>}}

----------------------------------------------------------------------------
(* Specification of the Response Gatekeeper alone *)

InitGate ==
    /\ InitWorkerVars
    /\ token_vault = {}
    /\ deployment = "interfaces"
    /\ clock = Epoch * TicksPerSecond
    /\ secret_store = SecretFull
    /\ environ = [PATH |-> <<"/bin">>]
    /\ slack_credentials = SecretFull
    /\ bot_user_id = BotId
    /\ slack_thread \in Threads
    /\ request \in GateEvents
    /\ response = NoneDict
    /\ calls = <<>>
    /\ worker_queue = <<>>
    /\ worker_inbox = <<>>
    /\ args = NoCall
    /\ result = Return(FALSE)

\* should_respond(slack_client, request, bot_user_id) is called in the Receiver
CallShouldRespond ==
    \E api \in RepliesOutcomes :
        /\ args = NoCall
        /\ args' = [fn |-> "should_respond", event |-> request, bot |-> bot_user_id,
                    api |-> api]
        /\ result' = should_respond(request, bot_user_id, api)
        /\ UNCHANGED <<deployment, clock, secret_store, environ, slack_credentials,
                       bot_user_id, slack_thread, request, response, calls,
                       worker_queue, worker_inbox,
                   worker_vars>>

\* the Worker runs its own should_respond on the same event, with the channel_id
\* the Receiver put in the payload; Slack answers this lookup on its own
CallWorkerShouldRespond ==
    \E api \in RepliesOutcomes :
        /\ args.fn = "should_respond"
        /\ IsNoneDict(response)
        /\ response' = worker_should_respond(request, bot_user_id,
                                             Get(request, "channel", EmptyStr), api)
        /\ calls' = <<L("worker.should_respond", api)>>
        /\ UNCHANGED <<deployment, clock, secret_store, environ, slack_credentials,
                       bot_user_id, slack_thread, request, worker_queue, worker_inbox,
                       args, result,
                   worker_vars>>

NextGate == CallShouldRespond \/ CallWorkerShouldRespond

SpecGate == InitGate /\ [][NextGate]_vars

----------------------------------------------------------------------------
(* Specification of the Request Authenticator alone *)

InitVerify ==
    InitCommon /\ token_vault = {} /\ slack_thread = <<>> /\ request \in VerifyEvents

\* verify_slack_request(request) is called in the deployed Receiver's process
CallVerify ==
    \E sm \in SMOutcomes :
        LET creds == get_slack_credentials(slack_credentials, sm)
            event == request
        IN  /\ args = NoCall
            /\ args' = [fn |-> "verify_slack_request", event |-> event,
                        credentials |-> creds.value, now |-> current_timestamp,
                        time |-> clock]
            /\ result' = IF deployment = "interfaces"
                         THEN verify_slack_request(event, creds.value)
                         ELSE app_verify_slack_request(event, creds.value)
            /\ slack_credentials' = creds.cache
            /\ UNCHANGED <<deployment, clock, secret_store, environ, bot_user_id,
                           slack_thread, request, response, calls, worker_queue,
                           worker_inbox,
                   worker_vars>>

\* the process has the credentials in its cache from an earlier invocation
WarmCredentials ==
    /\ args = NoCall
    /\ IsNoneDict(slack_credentials)
    /\ slack_credentials' = secret_store
    /\ UNCHANGED <<deployment, clock, secret_store, environ, bot_user_id,
                   slack_thread, request, response, calls, worker_queue,
                   worker_inbox, args, result,
                   worker_vars>>

NextVerify == Tick \/ WarmCredentials \/ CallVerify

SpecVerify == InitVerify /\ [][NextVerify]_vars

----------------------------------------------------------------------------
(* Requests to the Receiver *)

MsgTs == <<"200.0">>

MentionText == Mention(BotId) \o <<" ", "hi">>

\* the events of the callbacks sent: a mention in a channel, a reply without
\* mention in the thread, a plain message, the bot's own message, another bot's
\* message, an event with "text": null, and a mention inside the thread
CallbackEvents ==
    {SlackEvent(User1, Absent, MentionText, Absent, MsgTs),
     SlackEvent(User1, Absent, <<"follow", " ", "up">>, ThreadTs, MsgTs),
     SlackEvent(User1, Absent, <<"hello">>, Absent, MsgTs),
     SlackEvent(BotId, Absent, MentionText, ThreadTs, MsgTs),
     SlackEvent(OtherBotUser, <<"B9">>, MentionText, Absent, MsgTs),
     SlackEvent(User1, Absent, None, Absent, MsgTs),
     SlackEvent(User1, Absent, MentionText, ThreadTs, MsgTs)}

HandshakeDoc(challenge) == Dict([type |-> <<"url_verification">>, challenge |-> challenge])

Challenges == {<<"ch1">>, <<"ch2">>, Absent}

CallbackDoc(slack_event) ==
    [type |-> <<"event_callback">>, team_id |-> <<"T1">>, event |-> slack_event,
     event_id |-> <<"Ev1">>, event_time |-> Epoch]

\* a slash command as a JSON document
CommandDoc ==
    [command |-> <<"/mynion">>, text |-> <<"today">>, user_id |-> User1,
     team_id |-> <<"T1">>, channel_id |-> Channel, trigger_id |-> <<"trig1">>,
     response_url |-> <<"https://hooks">>]

\* a slash command as Slack posts it: application/x-www-form-urlencoded
CommandForm == TextBody([text |-> <<"command=%2Fmynion&text=today">>])

UnknownDoc == [type |-> <<"app_rate_limited">>]

\* a JSON document that is no object
JsonArray == [kind |-> "json_other", doc |-> [list |-> TRUE]]

Bodies ==
    {JsonBody(HandshakeDoc(c)) : c \in Challenges}
    \cup {JsonBody(CallbackDoc(e)) : e \in CallbackEvents \cup {NoneDict}}
    \cup {JsonBody([type |-> <<"event_callback">>, team_id |-> <<"T1">>]),
          JsonBody(CommandDoc), CommandForm, JsonBody(UnknownDoc), JsonArray, NoneBody}

\* the bodies also sent with a wrong, stale or missing signature
ProbeBodies ==
    {JsonBody(HandshakeDoc(<<"ch1">>)),
     JsonBody(CallbackDoc(SlackEvent(User1, Absent, MentionText, Absent, MsgTs)))}

FreshTs == str(Epoch)
StaleTs == str(Epoch - ReplayWindow - 1)

\* a request signed by Slack, one signed with another key, a replayed one, one
\* without signature and one without headers
Signed(names, body) ==
    ApiEvent(Headers(names, TRUE, SlackSign(SigningSecret, FreshTs, body), TRUE, FreshTs),
             body)
Forged(names, body) ==
    ApiEvent(Headers(names, TRUE, SlackSign(<<"wr0ng">>, FreshTs, body), TRUE, FreshTs),
             body)
Replayed(names, body) ==
    ApiEvent(Headers(names, TRUE, SlackSign(SigningSecret, StaleTs, body), TRUE, StaleTs),
             body)
Unsigned(names, body) == ApiEvent(Headers(names, FALSE, EmptySig, TRUE, FreshTs), body)

\* the requests sent to the Receiver, under the header names it reads; the
\* probes also under the other spelling of the names
RequestsUnder(names, bodies) ==
    {Signed(names, b) : b \in bodies}
    \cup UNION {{Signed(n, b), Forged(n, b), Replayed(n, b), Unsigned(n, b),
                 ApiEvent(NoneDict, b)} : n \in HeaderNames, b \in ProbeBodies}

\* the bodies sent to the app variant, which has no gate: one event is enough
AppBodies ==
    {b \in Bodies : b.kind = "json" /\ "event" \in DOMAIN b.doc
                        => b.doc.event \in {NoneDict,
                                            SlackEvent(User1, Absent, MentionText, Absent, MsgTs)}}

Requests == RequestsUnder(CanonicalNames, Bodies)
AppRequests == RequestsUnder(LowerNames, AppBodies)

----------------------------------------------------------------------------
(* Intake Stage: the Receiver Lambda *)

EmptyDict == [py_empty |-> TRUE]

\* a or b, of two str or None
Or(a, b) == IF Truthy(a) THEN a ELSE b

JsonHeaders == [ContentType |-> <<"application/json">>]

\* what API Gateway answers when the Lambda raises
EscapedException == [statusCode |-> 502, body |-> [message |-> <<"Internal server error">>]]

\* {"statusCode": 401, "body": json.dumps({"error": "Invalid signature"})}
Unauthorized == [statusCode |-> 401, body |-> [error |-> <<"Invalid signature">>]]

\* a handshake answer that drops the token
ChallengeDropped(challenge) ==
    [statusCode |-> 200, headers |-> JsonHeaders, body |-> [challenge |-> None]]

\* {"statusCode": 200, ..., "body": json.dumps({"challenge": body.get("challenge")})}
ChallengeResponse(challenge) ==
    [statusCode |-> 200, headers |-> JsonHeaders, body |-> [challenge |-> challenge]]

\* 200 {"ok": true} with the Content-Type header
OkJson == [statusCode |-> 200, headers |-> JsonHeaders, body |-> [ok |-> TRUE]]

\* 200 {"ok": true} of the unknown-type branch
OkUnknown == [statusCode |-> 200, body |-> [ok |-> TRUE]]

\* except Exception: return 200 {"ok": true}
handler_except == [statusCode |-> 200, body |-> [ok |-> TRUE]]

\* the acknowledgment of a slash command (app variant)
CommandAck ==
    [statusCode |-> 200, headers |-> JsonHeaders,
     body |-> [response_type |-> <<"in_channel">>, text |-> <<"processing">>]]

\* json.loads(body) for a str body; a body that is no str is left as it is
json_loads(body) == IF body.kind \in {"json", "json_other"} THEN Return(body.doc) ELSE Raise

BoolStr(b) == IF b THEN "True" ELSE "False"

\* the payload for an event callback
\* a payload whose thread is the message itself, whatever thread it is in
EventPayload_by_ts(doc, slack_event) ==
    [event |-> slack_event,
     user_id |-> Get(slack_event, "user", EmptyStr),
     team_id |-> Get(doc, "team_id", EmptyStr),
     channel_id |-> Get(slack_event, "channel", EmptyStr),
     thread_id |-> Get(slack_event, "ts", EmptyStr),
     event_id |-> Get(doc, "event_id", EmptyStr),
     event_time |-> Get(doc, "event_time", 0)]

EventPayload(doc, slack_event) ==
    [event |-> slack_event,
     user_id |-> Get(slack_event, "user", EmptyStr),
     team_id |-> Get(doc, "team_id", EmptyStr),
     channel_id |-> Get(slack_event, "channel", EmptyStr),
     thread_id |-> Or(Get(slack_event, "thread_ts", None), Get(slack_event, "ts", EmptyStr)),
     event_id |-> Get(doc, "event_id", EmptyStr),
     event_time |-> Get(doc, "event_time", 0)]

\* the payload for a slash command (app variant)
CommandPayload(doc) ==
    [command |-> Get(doc, "command", EmptyStr),
     text |-> Get(doc, "text", EmptyStr),
     user_id |-> Get(doc, "user_id", EmptyStr),
     team_id |-> Get(doc, "team_id", EmptyStr),
     channel_id |-> Get(doc, "channel_id", EmptyStr),
     thread_id |-> Get(doc, "trigger_id", EmptyStr),
     response_url |-> Get(doc, "response_url", EmptyStr)]

\* what lambda_client.invoke(InvocationType="Event") can do: accept the payload,
\* refuse it (raises), or accept it and fail to say so (raises)
InvokeOutcomes == {"accepted", "refused", "lost_reply"}

\* the asynchronous invocation queue after lambda_client.invoke
lambda_invoke(queue, payload, inv) ==
    IF inv = "refused" THEN queue ELSE Append(queue, payload)

\* the outcomes to choose from for a call that is made only on a cold cache
SMChoices(cache) == IF IsNoneDict(cache) THEN SMOutcomes ELSE {"cached"}
AuthChoices(cache) == IF cache = None THEN AuthOutcomes ELSE {"cached"}
\* ... and for the thread lookup, made only when the gate comes to it
RepliesChoices(slack_event, bot) ==
    IF should_respond(slack_event, bot, "first").lookups = 0
    THEN {"none"} ELSE RepliesOutcomes

SMLog(c, sm) == IF c.called THEN <<L("get_secret_value", sm)>> ELSE <<>>

\* the invocation ends: what it returned and what it left behind
Reply(event, resp, log, creds, bot, queue) ==
    /\ request' = event
    /\ response' = resp
    /\ calls' = log
    /\ slack_credentials' = creds
    /\ bot_user_id' = bot
    /\ worker_queue' = queue
    /\ UNCHANGED <<deployment, clock, secret_store, environ, slack_thread,
                   worker_inbox, args, result,
                   worker_vars>>

\* a submission whose failure is reported to the platform
handler_invoke_strict(event, payload, ack, log, creds, bot) ==
    \E inv \in InvokeOutcomes :
        LET queue == lambda_invoke(worker_queue, payload, inv)
            log2 == Append(log, L("lambda.invoke", inv))
        IN  IF inv # "accepted"
            THEN Reply(event, [statusCode |-> 500, body |-> [ok |-> FALSE]], log2, creds,
                       bot, queue)
            ELSE Reply(event, ack, log2, creds, bot, queue)

\* lambda_client.invoke(...) and the return after it
handler_invoke(event, payload, ack, log, creds, bot) ==
    \E inv \in InvokeOutcomes :
        LET queue == lambda_invoke(worker_queue, payload, inv)
            log2 == Append(log, L("lambda.invoke", inv))
        IN  IF inv # "accepted"
            THEN Reply(event, handler_except, log2, creds, bot, queue)
            ELSE Reply(event, ack, log2, creds, bot, queue)

\* the event_callback branch of interfaces/slack/receiver.py
handler_event_callback(event, doc, creds, log) ==
    \E sm \in SMChoices(creds) :
        LET slack_event == Get(doc, "event", EmptyDict)
            c == get_slack_credentials(creds, sm)
            log2 == log \o SMLog(c, sm)
            slack_bot_token == Get(c.value, "SLACK_BOT_TOKEN", EmptyStr)
        IN  IF slack_bot_token = EmptyStr
            THEN Reply(event, OkJson, log2, c.cache, bot_user_id, worker_queue)
            ELSE
            \E auth \in AuthChoices(bot_user_id) :
                LET b == get_bot_user_id(bot_user_id, auth)
                    log3 == IF b.called THEN Append(log2, L("auth.test", auth)) ELSE log2
                IN  IF b.exc
                    THEN Reply(event, OkJson, log3, c.cache, b.cache, worker_queue)
                    ELSE
                    \E api \in RepliesChoices(slack_event, b.ret) :
                        LET d == should_respond(slack_event, b.ret, api)
                            log4 == (IF d.lookups > 0
                                     THEN Append(log3, L("conversations.replies", api))
                                     ELSE log3)
                                    \o <<L("should_respond",
                                          IF d.exc THEN "raise" ELSE BoolStr(d.ret))>>
                        IN  IF d.exc
                            THEN Reply(event, handler_except, log4, c.cache, b.cache,
                                       worker_queue)
                            ELSE IF ~d.ret
                            THEN Reply(event, OkJson, log4, c.cache, b.cache, worker_queue)
                            ELSE handler_invoke(event, EventPayload(doc, slack_event),
                                                OkJson, log4, c.cache, b.cache)

\* interfaces/slack/receiver.py handler, after the signature was verified
handler_verified(event, creds, log) ==
    LET body == Get(event, "body", JsonBody(EmptyDict))
        parsed == IF body.kind = "None" THEN Return(NoneDict) ELSE json_loads(body)
        log2 == IF body.kind = "None" THEN log
                ELSE Append(log, L("json.loads", IF parsed.exc THEN "raise" ELSE "ok"))
        doc == parsed.ret
    IN  IF parsed.exc \/ body.kind # "json"
        THEN Reply(event, handler_except, log2, creds, bot_user_id, worker_queue)
        ELSE IF Get(doc, "type", None) = <<"url_verification">>
        THEN Reply(event, ChallengeResponse(Get(doc, "challenge", None)), log2, creds,
                   bot_user_id, worker_queue)
        ELSE IF Get(doc, "type", None) = <<"event_callback">>
        THEN handler_event_callback(event, doc, creds, log2)
        ELSE Reply(event, OkUnknown, log2, creds, bot_user_id, worker_queue)

\* the asynchronous invocation queue has room for one more payload
QueueHasRoom == Len(worker_queue) < MaxQueue

\* a handler that goes on after a failed verification
handler_ignores_verify ==
    /\ deployment = "interfaces"
    /\ QueueHasRoom
    /\ \E event \in Requests :
       \E sm \in SMChoices(slack_credentials) :
           LET c == get_slack_credentials(slack_credentials, sm)
               v == verify_slack_request(event, c.value)
               log == SMLog(c, sm) \o <<L("verify_slack_request", BoolStr(v.ret))>>
           IN  handler_verified(event, c.cache, log)

\* handler(event, _context) of interfaces/slack/receiver.py, for one event
handler_on(event) ==
    \E sm \in SMChoices(slack_credentials) :
        LET c == get_slack_credentials(slack_credentials, sm)
            v == verify_slack_request(event, c.value)
            log == SMLog(c, sm) \o <<L("verify_slack_request", BoolStr(v.ret))>>
        IN  IF v.exc
            THEN Reply(event, handler_except, log, c.cache, bot_user_id, worker_queue)
            ELSE IF ~v.ret
            THEN Reply(event, Unauthorized, log, c.cache, bot_user_id, worker_queue)
            ELSE handler_verified(event, c.cache, log)

\* handler(event, _context) of interfaces/slack/receiver.py
handler ==
    /\ deployment = "interfaces"
    /\ QueueHasRoom
    /\ \E event \in Requests : handler_on(event)

\* the event_callback branch of app/slack/receiver.py: no gate
app_handler_event_callback(event, doc, creds, log) ==
    LET slack_event == Get(doc, "event", EmptyDict)
    IN  IF IsNoneDict(slack_event)
        THEN Reply(event, handler_except, log, creds, bot_user_id, worker_queue)
        ELSE handler_invoke(event, EventPayload(doc, slack_event), OkJson, log, creds,
                            bot_user_id)

\* app/slack/receiver.py handler, after the signature was verified
app_handler_verified(event, creds, log) ==
    LET body == Get(event, "body", JsonBody(EmptyDict))
        parsed == IF body.kind = "None" THEN Return(NoneDict) ELSE json_loads(body)
        log2 == IF body.kind = "None" THEN log
                ELSE Append(log, L("json.loads", IF parsed.exc THEN "raise" ELSE "ok"))
        doc == parsed.ret
    IN  IF parsed.exc \/ body.kind # "json"
        THEN Reply(event, handler_except, log2, creds, bot_user_id, worker_queue)
        ELSE IF Get(doc, "type", None) = <<"url_verification">>
        THEN Reply(event, ChallengeResponse(Get(doc, "challenge", None)), log2, creds,
                   bot_user_id, worker_queue)
        ELSE IF Get(doc, "type", None) = <<"event_callback">>
        THEN app_handler_event_callback(event, doc, creds, log2)
        ELSE IF "command" \in DOMAIN doc
        THEN handler_invoke(event, CommandPayload(doc), CommandAck, log2, creds,
                            bot_user_id)
        ELSE Reply(event, OkUnknown, log2, creds, bot_user_id, worker_queue)

\* handler(event, _context) of app/slack/receiver.py
app_handler ==
    /\ deployment = "app"
    /\ QueueHasRoom
    /\ \E event \in AppRequests :
       \E sm \in SMChoices(slack_credentials) :
           LET c == get_slack_credentials(slack_credentials, sm)
               v == app_verify_slack_request(event, c.value)
               log == SMLog(c, sm) \o <<L("verify_slack_request", BoolStr(v.ret))>>
           IN  IF v.exc
               THEN Reply(event, handler_except, log, c.cache, bot_user_id, worker_queue)
               ELSE IF ~v.ret
               THEN Reply(event, Unauthorized, log, c.cache, bot_user_id, worker_queue)
               ELSE app_handler_verified(event, c.cache, log)

\* Lambda starts a Worker invocation with a payload of the queue
DeliverAsync ==
    /\ \E i \in 1..Len(worker_queue) :
        /\ worker_inbox' = worker_queue[i]
        /\ worker_queue' = SubSeq(worker_queue, 1, i - 1)
                           \o SubSeq(worker_queue, i + 1, Len(worker_queue))
    /\ UNCHANGED <<deployment, clock, secret_store, environ, slack_credentials,
                   bot_user_id, slack_thread, request, response, calls, args, result,
                   worker_vars>>

\* the threads Slack may hold when the Receiver starts
InitThreads == {ThreadOf(1, 0), ThreadOf(2, 2)}

\* the secret and the environment of the deployments modelled
InitSecrets ==
    {<<SecretFull, [PATH |-> <<"/bin">>]>>,
     <<SecretNoToken, [PATH |-> <<"/bin">>, SLACK_BOT_TOKEN |-> BotToken,
                      SLACK_SIGNING_SECRET |-> SigningSecret]>>,
     <<SecretEmpty, [PATH |-> <<"/bin">>, SLACK_BOT_TOKEN |-> BotToken,
                    SLACK_SIGNING_SECRET |-> SigningSecret]>>}

Init ==
    /\ InitCommon
    /\ token_vault = {}
    /\ <<secret_store, environ>> \in InitSecrets
    /\ slack_thread \in InitThreads
    /\ request = NoneDict

Next == handler \/ app_handler \/ DeliverAsync

Spec == Init /\ [][Next]_vars

----------------------------------------------------------------------------
(* Properties of the Intake Stage (under Spec) *)

\* an invocation of the Receiver has returned
Handled == ~IsNoneDict(response)

\* the last invocation made the call fn, with the outcome out
Called(fn) == \E i \in 1..Len(calls) : calls[i].fn = fn
CalledWith(fn, out) == \E i \in 1..Len(calls) : calls[i] = L(fn, out)

VerifyFailed == CalledWith("verify_slack_request", "False")
Verified == CalledWith("verify_slack_request", "True")

\* the JSON document of the last request, if its body is one
RequestIsJson == Handled /\ request.body.kind = "json"
RequestDoc == request.body.doc

\* C1: when verification returns False the Receiver answers 401 and does nothing
\* else: no json.loads, no Slack API call, no gate, no invocation of the Worker
\* (the queue of the Worker does not grow).
C1_UnauthorizedStops ==
    /\ [](VerifyFailed =>
            /\ response.statusCode = 401
            /\ \A i \in 1..Len(calls) :
                  calls[i].fn \in {"get_secret_value", "verify_slack_request"})
    /\ [][VerifyFailed' => (/\ Len(worker_queue') <= Len(worker_queue)
                            /\ bot_user_id' = bot_user_id)]_vars

\* a request signed with another key was answered 401
C1_Witness ==
    /\ Handled /\ VerifyFailed
    /\ ~IsNoneDict(request.headers)
    /\ "X-Slack-Signature" \in DOMAIN request.headers
    /\ request.headers["X-Slack-Signature"]
         = SlackSign(<<"wr0ng">>, FreshTs, request.body)
    /\ response = Unauthorized

\* C2: the Receiver always returns a response, with status 200 or 401, and 401
\* exactly when verification returned False; an exception on the way (a body
\* that is no JSON, a failed submission) gives 200.
C2_AlwaysAcks ==
    Handled =>
        /\ response.statusCode \in {200, 401}
        /\ (response.statusCode = 401) = VerifyFailed

\* a verified request with an unparsable body was answered 200
C2_Witness ==
    /\ Handled /\ Verified
    /\ CalledWith("json.loads", "raise")
    /\ response.statusCode = 200

\* the bot has a message in the thread Slack stores
BotInThread == \E i \in 1..Len(slack_thread) : slack_thread[i].user = BotId

\* the last request is a reply without mention, by a user, in the thread
ReplyWithoutMention ==
    /\ RequestIsJson
    /\ RequestDoc = CallbackDoc(SlackEvent(User1, Absent, <<"follow", " ", "up">>,
                                           ThreadTs, MsgTs))

\* C3: when the gate says False for an event callback, the Receiver answers
\* 200 {"ok": true} and submits nothing; in particular a reply without mention
\* in a thread where the bot has no message is never dispatched (Scenario C).
C3_GateFalseNoDispatch ==
    /\ [](deployment = "interfaces" =>
            /\ CalledWith("should_respond", "False")
                  => (response = OkJson /\ ~Called("lambda.invoke"))
            /\ (ReplyWithoutMention /\ ~BotInThread) => ~Called("lambda.invoke"))
    /\ [][(deployment = "interfaces" /\ CalledWith("should_respond", "False")')
              => Len(worker_queue') <= Len(worker_queue)]_vars

\* Scenario C happened: the thread was looked up, the gate said False
C3_Witness ==
    /\ deployment = "interfaces"
    /\ Verified /\ ReplyWithoutMention /\ ~BotInThread
    /\ CalledWith("conversations.replies", "first")
    /\ CalledWith("should_respond", "False")
    /\ response = OkJson

\* C4: once the payload is submitted the Receiver answers 200, whether
\* lambda_client.invoke returned or raised; the submission only puts the payload
\* in the queue: the Worker has not started on it when the Receiver returns, and
\* the start of a Worker invocation changes nothing in the Receiver's answer.
C4_FireAndForget ==
    /\ [](Called("lambda.invoke") => response.statusCode = 200)
    /\ [][Len(worker_queue') > Len(worker_queue)
            => (/\ Called("lambda.invoke")'
                /\ response'.statusCode = 200
                /\ worker_inbox' = worker_inbox)]_vars
    /\ [][worker_inbox' # worker_inbox => response' = response]_vars

\* the submission raised, the answer is 200 and the payload waits in the queue
C4_Witness ==
    /\ CalledWith("lambda.invoke", "lost_reply")
    /\ response.statusCode = 200
    /\ worker_queue # <<>>
    /\ worker_inbox = <<>>

\* the last request is a handshake
IsHandshake == RequestIsJson /\ Get(RequestDoc, "type", None) = <<"url_verification">>

\* C5: a verified url_verification request is answered 200 with its challenge
\* unchanged, without gate, Slack API call or submission.
C5_HandshakeEcho ==
    /\ []((Verified /\ IsHandshake) =>
            /\ response.statusCode = 200
            /\ response.body = [challenge |-> Get(RequestDoc, "challenge", None)]
            /\ \A i \in 1..Len(calls) :
                  calls[i].fn \in {"get_secret_value", "verify_slack_request", "json.loads"})
    /\ [][(Verified /\ IsHandshake)' => Len(worker_queue') <= Len(worker_queue)]_vars

\* the challenge ch1 was echoed
C5_Witness ==
    /\ Verified /\ IsHandshake
    /\ Get(RequestDoc, "challenge", None) = <<"ch1">>
    /\ response.statusCode = 200
    /\ response.body.challenge = <<"ch1">>

\* the last request is a slash command, as a JSON document
IsCommand == RequestIsJson /\ "command" \in DOMAIN RequestDoc

\* C6: a verified command-shaped request is submitted to the Worker and
\* answered with success.
C6_CommandDispatched ==
    (Verified /\ IsCommand) => (Called("lambda.invoke") /\ response.statusCode = 200)

----------------------------------------------------------------------------
(* Properties of the Request Authenticator (under SpecVerify) *)

VerifyCalled == args.fn = "verify_slack_request"

\* what the call read: the two headers under the names the Receiver uses, the
\* body and the signing secret
ArgHeaders == args.event.headers
ArgSignature ==
    IF IsNoneDict(ArgHeaders) THEN EmptySig ELSE Get(ArgHeaders, ReadNames.sig, EmptySig)
ArgTimestamp ==
    IF IsNoneDict(ArgHeaders) THEN EmptyStr ELSE Get(ArgHeaders, ReadNames.ts, EmptyStr)
ArgSecret == Get(args.credentials, "SLACK_SIGNING_SECRET", EmptyStr)

\* the timestamp header is an integer no more than the window away from now
ArgTimestampFresh ==
    /\ ArgTimestamp # EmptyStr
    /\ ~int(ArgTimestamp).exc
    /\ abs(args.now - int(ArgTimestamp).ret) <= ReplayWindow

\* C7: with a signing secret and a timestamp inside the window, verify returns
\* True exactly when the supplied signature is "v0=" + HMAC-SHA256(secret,
\* "v0:" + timestamp + ":" + body); any other signature (one bit of the digest
\* flipped, another prefix, another key, body or timestamp) makes it return False.
C7_VerifyIffSignature ==
    (VerifyCalled /\ ArgSecret # EmptyStr /\ ArgTimestampFresh)
        => /\ ~result.exc
           /\ result.ret = (ArgSignature = SlackSign(ArgSecret, ArgTimestamp, args.event.body))

\* a request signed by Slack was verified
C7_Witness ==
    /\ VerifyCalled /\ ArgSecret # EmptyStr /\ ArgTimestampFresh
    /\ ArgSignature = SlackSign(ArgSecret, ArgTimestamp, args.event.body)
    /\ result.ret

C9_VerifyRejectsMalformed ==
    (VerifyCalled /\ (\/ ArgSignature = EmptySig
                      \/ ArgTimestamp = EmptyStr
                      \/ ArgSecret = EmptyStr
                      \/ int(ArgTimestamp).exc))
        => (~result.exc /\ ~result.ret)

\* a request whose timestamp header is no integer was turned away without raising
C9_Witness ==
    /\ VerifyCalled /\ ArgSecret # EmptyStr /\ ArgSignature # EmptySig
    /\ ArgTimestamp # EmptyStr /\ int(ArgTimestamp).exc
    /\ ~result.exc /\ ~result.ret

----------------------------------------------------------------------------
(* Properties of the Response Gatekeeper (under SpecGate) *)

GateCalled == args.fn = "should_respond"


\* C10: should_respond of the Receiver returns False for every event whose
\* author is the bot, whatever its text (a mention of the bot included) and
\* whatever the thread holds.
C10_SelfAuthoredIgnored ==
    (GateCalled /\ ~IsNoneDict(args.event) /\ Get(args.event, "user", None) = args.bot)
        => (~result.exc /\ ~result.ret)

\* the bot's own message, mentioning the bot in a thread the bot is in, was ignored
C10_Witness ==
    /\ GateCalled /\ ~IsNoneDict(args.event)
    /\ Get(args.event, "user", None) = args.bot
    /\ Get(args.event, "text", EmptyStr) = Mention(BotId)
    /\ Get(args.event, "thread_ts", None) = ThreadTs
    /\ BotInThread
    /\ ~result.exc /\ ~result.ret

\* the event the gate was called with, and what the decision reads in it
GateEvent == args.event
GateHasEvent == GateCalled /\ ~IsNoneDict(GateEvent)
SelfAuthored == Get(GateEvent, "user", None) = args.bot
ForeignBot == Truthy(Get(GateEvent, "bot_id", None))
GateText == Get(GateEvent, "text", EmptyStr)
Mentioned == GateText # None /\ Contains(GateText, Mention(args.bot))
GateThreadTs == Get(GateEvent, "thread_ts", None)
LookupFailed == args.api \in {"ok_false", "http_error"}

\* C11 as stated: should_respond is True whenever the text contains the mention
\* token of the bot.
C11_MentionAlwaysTrue ==
    (GateHasEvent /\ Mentioned) => (~result.exc /\ result.ret)

\* C11, amended: for an event that is not authored by the bot and carries no
\* bot_id marker, should_respond is True whenever the text contains the mention
\* token, in a thread the bot has no message in and when the thread lookup would
\* fail alike, and it makes no lookup.
C11_MentionWins ==
    (GateHasEvent /\ ~SelfAuthored /\ ~ForeignBot /\ Mentioned)
        => (~result.exc /\ result.ret /\ result.lookups = 0)

\* a mention in a thread without the bot, where the lookup would have failed
C11_Witness ==
    /\ GateHasEvent /\ ~SelfAuthored /\ ~ForeignBot /\ Mentioned
    /\ GateThreadTs = ThreadTs
    /\ ~BotInThread /\ slack_thread # <<>>
    /\ args.api = "http_error"
    /\ result.ret

\* C12: a decision made by the author check, the bot_id check or the mention
\* check makes no thread lookup; a lookup is made only for an event of another
\* author, without bot_id and without mention, that has thread_ts, and then once.
C12_ShortCircuit ==
    (GateHasEvent /\ ~result.exc) =>
        /\ (SelfAuthored \/ ForeignBot \/ Mentioned) => result.lookups = 0
        /\ result.lookups > 0
              => (/\ ~SelfAuthored /\ ~ForeignBot /\ ~Mentioned
                  /\ "thread_ts" \in DOMAIN GateEvent
                  /\ result.lookups = 1)
        /\ (~SelfAuthored /\ ~ForeignBot /\ ~Mentioned /\ Truthy(GateThreadTs))
              => result.lookups = 1

\* a mention inside a thread the bot is in was decided without lookup
C12_Witness ==
    /\ GateHasEvent /\ ~SelfAuthored /\ ~ForeignBot /\ Mentioned
    /\ GateThreadTs = ThreadTs /\ BotInThread
    /\ args.api = "first"
    /\ result.ret /\ result.lookups = 0

\* C13: should_respond is False for every event with a non-empty bot_id, with a
\* mention in its text and in a thread where the bot has a message alike.
C13_ForeignBotIgnored ==
    (GateHasEvent /\ ForeignBot) => (~result.exc /\ ~result.ret)

\* another bot mentions the bot inside a thread the bot is in
C13_Witness ==
    /\ GateHasEvent /\ ForeignBot
    /\ Get(GateEvent, "user", None) = OtherBotUser
    /\ Mentioned
    /\ GateThreadTs = ThreadTs /\ BotInThread
    /\ ~result.ret

\* an event of another author, without bot_id, whose text is a str without mention
PlainHumanEvent ==
    GateHasEvent /\ ~SelfAuthored /\ ~ForeignBot /\ GateText # None /\ ~Mentioned

\* the bot wrote one of the up-to-5 most recent messages of the event's thread
BotInRecentFive ==
    /\ GateThreadTs = ThreadTs
    /\ Get(GateEvent, "channel", EmptyStr) = Channel
    /\ \E i \in 1..Len(slack_thread) :
          /\ i > Len(slack_thread) - RepliesLimit
          /\ slack_thread[i].user = args.bot

\* C14 as stated: for an event of a human author without mention, whose thread
\* lookup is answered, should_respond is True iff the bot wrote one of the
\* up-to-5 most recent messages of the thread, and False without thread_ts.
C14_RecentFiveDecide ==
    (PlainHumanEvent /\ ~LookupFailed)
        => (~result.exc /\ result.ret = (Truthy(GateThreadTs) /\ BotInRecentFive))

\* C15: when the thread lookup fails (request failure or ok = false),
\* get_thread_replies gives no messages, is_bot_in_thread is False and
\* should_respond is False for a thread reply without mention; nothing is raised.
C15_LookupFailsClosed ==
    (PlainHumanEvent /\ Truthy(GateThreadTs) /\ LookupFailed)
        => /\ ~result.exc /\ ~result.ret /\ result.lookups = 1
           /\ ~is_bot_in_thread(Get(GateEvent, "channel", EmptyStr), GateThreadTs,
                                args.bot, args.api)

\* a reply in a thread the bot is in, while Slack answers ok = false
C15_Witness ==
    /\ PlainHumanEvent /\ GateThreadTs = ThreadTs
    /\ BotInThread
    /\ args.api = "ok_false"
    /\ ~result.ret /\ result.lookups = 1

\* both gates have decided on the same event, with the same answer of Slack
BothGatesCalled ==
    /\ GateCalled
    /\ ~IsNoneDict(response)
    /\ calls = <<L("worker.should_respond", args.api)>>

\* C16: the Worker's should_respond gives the same decision as the Receiver's,
\* for every event, bot id and thread history.
C16_SameDecision ==
    BothGatesCalled => (response.exc = result.exc /\ response.ret = result.ret)

----------------------------------------------------------------------------
(* Processing Stage: the Worker Lambda (interfaces/slack/worker/handler.py and *)
(* its older variant app/slack/worker/handler.py)                           *)

\* get_slack_credentials() of the Worker: as the Receiver's, but the fallback
\* holds the bot token only
worker_get_slack_credentials(cache, sm) ==
    IF ~IsNoneDict(cache)
    THEN [value |-> cache, cache |-> cache, called |-> FALSE]
    ELSE IF sm = "ok"
    THEN [value |-> secret_store, cache |-> secret_store, called |-> TRUE]
    ELSE [value |-> [SLACK_BOT_TOKEN |-> Get(environ, "SLACK_BOT_TOKEN", EmptyStr)],
          cache |-> cache, called |-> TRUE]

\* a lookup that caches whatever it got, the empty id of a failure too
worker_get_bot_user_id_cache_all(cache, api) ==
    IF cache # None
    THEN [ret |-> cache, cache |-> cache, called |-> FALSE]
    ELSE IF api = "ok"
    THEN [ret |-> BotId, cache |-> BotId, called |-> TRUE]
    ELSE [ret |-> EmptyStr, cache |-> EmptyStr, called |-> TRUE]

\* SlackClient.get_bot_user_id() of the Worker: "" where the Receiver's raises
worker_get_bot_user_id(cache, api) ==
    IF cache # None
    THEN [ret |-> cache, cache |-> cache, called |-> FALSE]
    ELSE IF api = "ok"
    THEN [ret |-> BotId, cache |-> BotId, called |-> TRUE]
    ELSE [ret |-> EmptyStr, cache |-> cache, called |-> TRUE]

\* the characters [A-Z0-9] of the texts
IdChars == {"U", "B", "O", "X"} \cup Digit

\* the end of a match of [A-Z0-9]*> at s[i], or 0
RECURSIVE IdRunEnd(_, _)
IdRunEnd(s, i) ==
    IF i > Len(s) THEN 0
    ELSE IF s[i] = ">" THEN i
    ELSE IF s[i] \in IdChars THEN IdRunEnd(s, i + 1)
    ELSE 0

\* the end of a match of <@[A-Z0-9]+> at s[i], or 0
MentionEnd(s, i) ==
    IF i + 2 <= Len(s) /\ s[i] = "<" /\ s[i + 1] = "@" /\ s[i + 2] \in IdChars
    THEN IdRunEnd(s, i + 3) ELSE 0

\* re.sub(r"<@[A-Z0-9]+>", "", s) from s[i] on
RECURSIVE SubMentions(_, _)
SubMentions(s, i) ==
    IF i > Len(s) THEN <<>>
    ELSE IF MentionEnd(s, i) > 0 THEN SubMentions(s, MentionEnd(s, i) + 1)
    ELSE <<s[i]>> \o SubMentions(s, i + 1)

\* clean_message(text)
clean_message(text) == RStrip(LStrip(SubMentions(text, 1)))

\* the namespace of the session ids
SLACK_SESSION_NAMESPACE == <<"a1b2c3d4-e5f6-5678-9abc-def012345678">>

\* str(uuid.uuid5(namespace, name)): the hex digits of the SHA-1 digest of both,
\* a term over (namespace, name); a name that is not a str raises TypeError
str_uuid5(namespace, name) ==
    IF name = None THEN Raise
    ELSE Return(<<"uuid5:">> \o namespace \o <<"/">> \o name)

\* the lengths of the groups of hex digits of str(UUID), joined by "-"
UuidGroups == <<8, 4, 4, 4, 12>>

\* the number of characters of one symbol of a str: a Slack timestamp such as
\* "1234567890.000000", a trigger id such as
\* "13345224609.738474920.8088930838d88f008e0", a literal of the code, or one
\* character
SymbolLen(c) ==
    IF c \in {"100.0", "200.0", "999.0"} THEN 17
    ELSE IF c = "trig1" THEN 41
    ELSE IF c = "slack-" THEN 6
    ELSE IF c = "slack-new-" THEN 10
    ELSE 1

RECURSIVE SumLen(_, _)
SumLen(s, i) == IF i > Len(s) THEN 0 ELSE SymbolLen(s[i]) + SumLen(s, i + 1)

RECURSIVE SumSeq(_, _)
SumSeq(s, i) == IF i > Len(s) THEN 0 ELSE s[i] + SumSeq(s, i + 1)

\* len(s) of a session id: of the str of a UUID, or of another str
len(s) ==
    IF Len(s) > 0 /\ s[1] = "uuid5:"
    THEN SumSeq(UuidGroups, 1) + Len(UuidGroups) - 1
    ELSE SumLen(s, 1)

\* session_id of the Worker: str(uuid.uuid5(SLACK_SESSION_NAMESPACE, thread_id))
session_id(thread_id) == str_uuid5(SLACK_SESSION_NAMESPACE, thread_id)

\* session_id of the older Worker
app_session_id(thread_id, user_id) ==
    IF Truthy(thread_id) THEN <<"slack-">> \o thread_id
    ELSE <<"slack-new-">> \o user_id

\* agentcore_user_id: f"slack-{team_id}-{user_id}"
agentcore_user_id(team_id, user_id) == <<"slack-">> \o team_id \o <<"-">> \o user_id
----------------------------------------------------------------------------
(* Reasoning engine: agent.py, its Token Manager and its tool wrapper *)

\* the token the identity broker grants, and the authorization URL it hands out
AccessToken == <<"ya29">>
AuthUrl == <<"https://auth/a">>

\* what asking the identity broker for a token can end in: the SDK is
\* missing, the broker gives no workload token, it grants the token, it grants
\* it after handing out an authorization URL, it hands out a URL and gives up,
\* or it fails without one
BrokerOutcomes == {"no_sdk", "no_workload_token", "granted", "granted_after_url",
                   "auth_url", "rejected"}

\* the URL on_auth_url is called with, if it is called
BrokerUrl(broker) ==
    IF broker \in {"auth_url", "granted_after_url"} THEN AuthUrl ELSE None

\* d with d[k] = v, and d without k, for a dict kept as a function
Put(d, k, v) == [j \in DOMAIN d \cup {k} |-> IF j = k THEN v ELSE d[j]]
Pop(d, k) == [j \in DOMAIN d \ {k} |-> d[j]]

\* the body of the try of get_token (agent.py 120-160), for a user without
\* cache entry: the pair returned or the exception raised, and what is left in
\* _token_cache and pending_auth_sessions
identity_get_token(cache, pending, user_id, broker) ==
    IF broker = "no_sdk"
    THEN [exc |-> TRUE, token |-> None, auth_url |-> None, cache |-> cache,
          pending |-> pending, log |-> <<L("get_token", broker)>>]
    ELSE IF broker = "no_workload_token"
    THEN [exc |-> FALSE, token |-> None, auth_url |-> None, cache |-> cache,
          pending |-> pending, log |-> <<L("get_token", broker)>>]
    ELSE IF broker = "granted"
    THEN [exc |-> FALSE, token |-> AccessToken, auth_url |-> None,
          cache |-> Put(cache, user_id, AccessToken), pending |-> pending,
          log |-> <<L("get_token", broker)>>]
    ELSE IF broker = "granted_after_url"
    THEN [exc |-> FALSE, token |-> AccessToken, auth_url |-> None,
          cache |-> Put(cache, user_id, AccessToken),
          pending |-> Put(pending, user_id, BrokerUrl(broker)),
          log |-> <<L("get_token", broker)>>]
    ELSE IF broker = "auth_url"
    THEN [exc |-> FALSE, token |-> None, auth_url |-> BrokerUrl(broker),
          cache |-> cache, pending |-> Put(pending, user_id, BrokerUrl(broker)),
          log |-> <<L("get_token", broker)>>]
    ELSE [exc |-> TRUE, token |-> None, auth_url |-> None, cache |-> cache,
          pending |-> pending, log |-> <<L("get_token", broker)>>]

\* except ImportError / except Exception of get_token: return None, None
token_or_none(t) ==
    IF t.exc THEN [t EXCEPT !.exc = FALSE, !.token = None, !.auth_url = None] ELSE t

\* the cache hit of get_token
cached_token(cache, pending, user_id) ==
    [exc |-> FALSE, token |-> cache[user_id], auth_url |-> None, cache |-> cache,
     pending |-> pending, log |-> <<L("get_token", "cached")>>]

\* a Token Manager that asks the broker whatever its cache holds
get_token_uncached(cache, pending, user_id, broker) ==
    token_or_none(identity_get_token(cache, pending, user_id,
                                     IF broker = "cached" THEN "granted" ELSE broker))

\* a Token Manager that returns the URL of the broker and keeps no record of it
get_token_unrecorded(cache, pending, user_id, broker) ==
    [exc |-> FALSE, token |-> None, auth_url |-> BrokerUrl(broker), cache |-> cache,
     pending |-> pending, log |-> <<L("get_token", broker)>>]

\* a Token Manager without except clauses
get_token_reraise(cache, pending, user_id, broker) ==
    IF user_id \in DOMAIN cache THEN cached_token(cache, pending, user_id)
    ELSE identity_get_token(cache, pending, user_id, broker)

\* OAuthTokenManager.get_token(user_id): the pair returned and what it leaves
\* in _token_cache and pending_auth_sessions
get_token(cache, pending, user_id, broker) ==
    IF user_id \in DOMAIN cache THEN cached_token(cache, pending, user_id)
    ELSE token_or_none(identity_get_token(cache, pending, user_id, broker))

\* what get_token_sync returned to its caller, with the token the cache held
\* for the user before the call, the one it holds after it, and whether
\* get_token raised
TokenReturn(held, t, kept) ==
    [exc |-> FALSE,
     token |-> IF t.exc THEN None ELSE t.token,
     auth_url |-> IF t.exc THEN None ELSE t.auth_url,
     cache |-> t.cache, pending |-> t.pending,
     log |-> t.log \o <<L("get_token_sync",
                          [held |-> held, kept |-> kept, raised |-> t.exc,
                           token |-> IF t.exc THEN None ELSE t.token,
                           auth_url |-> IF t.exc THEN None ELSE t.auth_url])>>]

\* OAuthTokenManager.get_token_sync(user_id): get_token run to its end, and
\* except Exception: return None, None
get_token_sync(cache, pending, user_id, broker) ==
    TokenReturn(Get(cache, user_id, None), get_token(cache, pending, user_id, broker),
                Get(get_token(cache, pending, user_id, broker).cache, user_id, None))

\* an invalidation that empties the cache
invalidate_all(cache, user_id) == EmptyMap

\* OAuthTokenManager.invalidate_token(user_id)
invalidate_token(cache, user_id) == Pop(cache, user_id)

\* AuthRequired(...).to_dict(), without the random state
AuthRequired(auth_url, message) ==
    [auth_required |-> TRUE, auth_url |-> auth_url, message |-> message]

NeedAuth == <<"Google Calendar auth needed">>
TokenExpired == <<"token expired">>

\* what mcp_client.call_tool_sync can do: return a result, raise an exception
\* that tells of a 401, or raise another one
ToolOutcomes == {"ok", "unauthorized", "error"}

ToolResult == [result |-> <<"events">>]
ToolError(text) == [error |-> text]

\* call_tool after a 401 of the tool: log is what was called so far and u what
\* get_token returned after invalidate_token; the token of u is not used
call_tool_unauthorized(u, log) ==
    IF Truthy(u.auth_url)
    THEN [ret |-> AuthRequired(u.auth_url, TokenExpired), cache |-> u.cache,
          pending |-> u.pending,
          log |-> log \o u.log \o <<L("call_tool", "auth_required")>>]
    ELSE [ret |-> ToolError(<<"401">>), cache |-> u.cache, pending |-> u.pending,
          log |-> log \o u.log \o <<L("call_tool", "error")>>]

\* call_tool once get_token has returned t
call_tool_with(t, user_id, tool, broker2) ==
    IF Truthy(t.auth_url)
    THEN [ret |-> AuthRequired(t.auth_url, NeedAuth), cache |-> t.cache,
          pending |-> t.pending, log |-> t.log \o <<L("call_tool", "auth_required")>>]
    ELSE IF ~Truthy(t.token)
    THEN [ret |-> ToolError(<<"OAuth failed">>), cache |-> t.cache,
          pending |-> t.pending, log |-> t.log \o <<L("call_tool", "error")>>]
    ELSE IF tool = "ok"
    THEN [ret |-> ToolResult, cache |-> t.cache, pending |-> t.pending,
          log |-> t.log \o <<L("call_tool_sync", tool), L("call_tool", "result")>>]
    ELSE IF tool = "unauthorized"
    THEN call_tool_unauthorized(
            get_token_sync(invalidate_token(t.cache, user_id), t.pending, user_id,
                           broker2),
            t.log \o <<L("call_tool_sync", tool), L("invalidate_token", "done")>>)
    ELSE [ret |-> ToolError(<<"boom">>), cache |-> t.cache, pending |-> t.pending,
          log |-> t.log \o <<L("call_tool_sync", tool), L("call_tool", "error")>>]

\* MCPToolWithOAuth.call_tool(tool_name, arguments) for the user of the context:
\* the dict returned and what is left in the two stores
call_tool(cache, pending, user_id, broker, tool, broker2) ==
    call_tool_with(get_token_sync(cache, pending, user_id, broker), user_id, tool,
                   broker2)

\* what the model behind the agent decides in one run: whether it calls a tool,
\* what the broker and the tool do then, whether its answer relays the
\* authorization URL of a tool result, or whether the run fails
AgentPlans ==
    {[tools |-> 0, broker |-> "none", tool |-> "none", broker2 |-> "none",
      relay |-> FALSE, fail |-> f] : f \in BOOLEAN}
    \cup {[tools |-> 1, broker |-> b, tool |-> t, broker2 |-> b2, relay |-> r,
           fail |-> FALSE] :
            b \in BrokerOutcomes \cup {"cached"}, t \in ToolOutcomes \cup {"none"},
            b2 \in BrokerOutcomes \cup {"none"}, r \in BOOLEAN}

\* the outcomes to choose from: the broker is asked on a cold cache only, the
\* tool is called with a token only, the broker is asked again after a 401
\* only, and there is a URL to relay only if the broker handed one out
BrokerChoices(cache, user_id) ==
    IF user_id \in DOMAIN cache THEN {"cached"} ELSE BrokerOutcomes
ToolChoices(broker) ==
    IF broker \in {"cached", "granted", "granted_after_url"} THEN ToolOutcomes
    ELSE {"none"}
Broker2Choices(tool) == IF tool = "unauthorized" THEN BrokerOutcomes ELSE {"none"}
RelayChoices(broker, broker2) ==
    IF broker = "auth_url" \/ broker2 = "auth_url" THEN BOOLEAN ELSE {FALSE}

\* the plans of a run for user_id with the cache as it is
PlansFor(cache, user_id) ==
    {p \in AgentPlans :
        p.tools > 0 => /\ p.broker \in BrokerChoices(cache, user_id)
                       /\ p.tool \in ToolChoices(p.broker)
                       /\ p.broker2 \in Broker2Choices(p.tool)
                       /\ p.relay \in RelayChoices(p.broker, p.broker2)}

Answer == <<"answer">>
AuthAnswer(auth_url) == <<"please authorize: ">> \o auth_url

\* result.message of strands_agent(user_message)
AgentMessage(text) == [role |-> <<"assistant">>, content |-> <<[text |-> text]>>]

\* the answer of the agent after its tool call returned c
strands_agent_answer(c, relay) ==
    [exc |-> FALSE,
     text |-> IF "auth_required" \in DOMAIN c.ret /\ relay
              THEN AuthAnswer(c.ret.auth_url) ELSE Answer,
     cache |-> c.cache, pending |-> c.pending,
     log |-> <<L("strands_agent", "started")>> \o c.log
             \o <<L("strands_agent", "answered")>>]

\* strands_agent(user_message) with the user of the context: the text of its
\* answer, or an exception, and what its tool calls leave in the stores
strands_agent(cache, pending, user_id, plan) ==
    IF plan.fail
    THEN [exc |-> TRUE, text |-> EmptyStr, cache |-> cache, pending |-> pending,
          log |-> <<L("strands_agent", "raised")>>]
    ELSE IF plan.tools = 0
    THEN [exc |-> FALSE, text |-> Answer, cache |-> cache, pending |-> pending,
          log |-> <<L("strands_agent", "answered")>>]
    ELSE strands_agent_answer(
            call_tool(cache, pending, user_id, plan.broker, plan.tool, plan.broker2),
            plan.relay)

DefaultUser == <<"default">>

\* the answer of POST /invocations once strands_agent has run with outcome a
invoke_agent_response(a) ==
    IF a.exc
    THEN [status |-> 500, body |-> [detail |-> <<"Agent processing failed">>],
          cache |-> a.cache, pending |-> a.pending,
          log |-> a.log \o <<L("invocations", "500")>>]
    ELSE [status |-> 200, body |-> [output |-> [message |-> AgentMessage(a.text)]],
          cache |-> a.cache, pending |-> a.pending,
          log |-> a.log \o <<L("invocations", "200")>>]

\* POST /invocations with a JSON body: the HTTP status, the body of the answer
\* and what is left in the stores
invoke_agent(body, cache, pending, plan) ==
    IF "input" \notin DOMAIN body
    THEN [status |-> 422, body |-> [detail |-> <<"input: field required">>],
          cache |-> cache, pending |-> pending, log |-> <<L("invocations", "422")>>]
    ELSE IF ~Truthy(Get(body.input, "prompt", EmptyStr))
    THEN [status |-> 500, body |-> [detail |-> <<"Agent processing failed">>],
          cache |-> cache, pending |-> pending, log |-> <<L("invocations", "500")>>]
    ELSE invoke_agent_response(
            strands_agent(cache, pending, Get(body.input, "user_id", DefaultUser), plan))

----------------------------------------------------------------------------
(* AgentCore Runtime between the Worker and the agent, and Slack's messages *)

\* the interim text "thinking..." and the text shown when the agent gave none
Thinking == <<"thinking...">>
NoResponse == <<"no response">>

\* the bound on the messages the bot posts in one behaviour
MaxMessages == 2

\* what chat.postMessage and chat.update can do: do it and say so, refuse
\* (raises), or do it and fail to say so (raises)
PostOutcomes == {"ok", "error", "lost_reply"}

\* ... and what they can do for a channel: Slack refuses a post without one
PostChoices(channel) == IF Truthy(channel) THEN PostOutcomes ELSE {"error"}

\* the ts Slack gives the n-th message of the bot
PostedTs(n) == <<"300.", DigitChar(n)>>

\* SlackClient.post_message(channel, text, thread_ts): the messages afterwards
post_message(msgs, channel, text, thread_ts, post) ==
    IF post = "error" THEN msgs
    ELSE Append(msgs, [channel |-> channel, thread_ts |-> thread_ts, text |-> text,
                       ts |-> PostedTs(Len(msgs) + 1), edits |-> 0])

\* an update that edits the message twice
update_message_twice(msgs, channel, ts, text, upd) ==
    IF upd = "error" THEN msgs
    ELSE [i \in 1..Len(msgs) |->
            IF msgs[i].ts = ts /\ msgs[i].channel = channel
            THEN [msgs[i] EXCEPT !.text = text, !.edits = @ + 2]
            ELSE msgs[i]]

\* an update that edits the latest message of the channel, whatever its ts
update_message_latest(msgs, channel, ts, text, upd) ==
    IF upd = "error" THEN msgs
    ELSE [i \in 1..Len(msgs) |->
            IF msgs[i].channel = channel
               /\ \A j \in (i + 1)..Len(msgs) : msgs[j].channel # channel
            THEN [msgs[i] EXCEPT !.text = text, !.edits = @ + 1]
            ELSE msgs[i]]

\* SlackClient.update_message(channel, ts, text): the messages afterwards
update_message(msgs, channel, ts, text, upd) ==
    IF upd = "error" THEN msgs
    ELSE [i \in 1..Len(msgs) |->
            IF msgs[i].ts = ts /\ msgs[i].channel = channel
            THEN [msgs[i] EXCEPT !.text = text, !.edits = @ + 1]
            ELSE msgs[i]]

\* what invoke_agent_runtime can do: fail before the agent is reached, or hand
\* the payload to POST /invocations and then raise an answer that is no 2xx
\* ("strict") or hand it over as it is ("relay")
RuntimeOutcomes == {"error", "strict", "relay"}

\* a JSON value that is a string where the code expects a dict
JsonString(s) == [py_str |-> s]

\* isinstance(v, dict): v has .get; None and a str have not
IsDict(v) == "py_none" \notin DOMAIN v /\ "py_str" \notin DOMAIN v

\* str(v) of a str or of None: the four characters of "None" for None
str_of(v) == IF v = None THEN <<"N", "o", "n", "e">> ELSE v

\* the text _parse_response returns when parsing raised, and str(response)
ParseFailed == <<"parse failed">>
ReprOfResponse == <<"str(response)">>

\* AgentCoreClient._extract_text(data): the text returned, or AttributeError
\* where data or data["message"] is no dict
extract_text(data) ==
    IF ~IsDict(data) THEN Raise
    ELSE IF ~IsDict(Get(data, "message", EmptyDict)) THEN Raise
    ELSE IF Get(Get(data, "message", EmptyDict), "content", <<>>) # <<>>
            /\ IsDict(Get(Get(data, "message", EmptyDict), "content", <<>>)[1])
    THEN Return(str_of(Get(Get(Get(data, "message", EmptyDict), "content", <<>>)[1],
                           "text", NoResponse)))
    ELSE Return(NoResponse)

\* a line of the body of the answer: whether it starts with "data: ", and the
\* rest of it, a JSON document or another text (an empty line is the empty text)
Line(data, chunk) == [data |-> data, chunk |-> chunk]

\* the characters of a chunk
raw_text(chunk) == IF chunk.kind = "json" THEN <<"{json}">> ELSE chunk.doc.text

\* "\n".join(content)
RECURSIVE join_lines(_, _)
join_lines(content, i) ==
    IF i > Len(content) THEN <<>>
    ELSE IF i = Len(content) THEN raw_text(content[i])
    ELSE raw_text(content[i]) \o <<"\n">> \o join_lines(content, i + 1)

IsDataLine(l) == l.data
IsNonEmptyLine(l) == l.data \/ l.chunk # EmptyBody

\* the data of the lines that start with "data: ", in order
data_chunks(lines) ==
    [i \in 1..Len(SelectSeq(lines, IsDataLine)) |-> SelectSeq(lines, IsDataLine)[i].chunk]

\* _parse_response for "text/event-stream", given the data of the data lines
parse_event_stream(content) ==
    IF content = <<>> THEN NoResponse
    ELSE IF json_loads(content[Len(content)]).exc THEN join_lines(content, 1)
    ELSE IF extract_text(json_loads(content[Len(content)]).ret).exc THEN ParseFailed
    ELSE extract_text(json_loads(content[Len(content)]).ret).ret

\* _parse_response for "application/json", given the chunks that are not empty:
\* their concatenation is a JSON document only if it is one chunk holding one
parse_json(chunks) ==
    IF Len(chunks) # 1 \/ chunks[1].data THEN ParseFailed
    ELSE IF json_loads(chunks[1].chunk).exc THEN ParseFailed
    ELSE IF extract_text(json_loads(chunks[1].chunk).ret).exc THEN ParseFailed
    ELSE extract_text(json_loads(chunks[1].chunk).ret).ret

TextEventStream == <<"text/event-stream">>
ApplicationJson == <<"application/json">>

\* AgentCoreClient._parse_response(response)
parse_response(resp) ==
    IF Contains(Get(resp, "contentType", EmptyStr), TextEventStream)
    THEN parse_event_stream(data_chunks(resp.response))
    ELSE IF Get(resp, "contentType", EmptyStr) = ApplicationJson
    THEN parse_json(SelectSeq(resp.response, IsNonEmptyLine))
    ELSE ReprOfResponse

\* what invoke_agent_runtime returns for the answer of the agent: its JSON body
RuntimeResponse(body) ==
    [contentType |-> ApplicationJson, response |-> <<Line(FALSE, JsonBody(body))>>]

\* agent_response of the handler: result if result else the default text
agent_response(text) == IF Truthy(text) THEN text ELSE NoResponse

\* the payload AgentCoreClient.invoke_agent sends
InvokePayload(user_id, input_text) == [prompt |-> input_text, user_id |-> user_id]

\* a client that does not wait for the answer of the agent
client_invoke_agent_async(user_id, input_text, cache, pending, runtime, plan) ==
    [exc |-> FALSE, ret |-> NoResponse, cache |-> cache, pending |-> pending,
     log |-> <<L("invoke_agent_runtime", "called")>>]

\* AgentCoreClient.invoke_agent once invoke_agent_runtime has reached the
\* agent and the agent has answered r: _parse_response, or the exception
client_parse_response(r, runtime) ==
    IF r.status # 200 /\ runtime = "strict"
    THEN [exc |-> TRUE, ret |-> EmptyStr, cache |-> r.cache, pending |-> r.pending,
          log |-> <<L("invoke_agent_runtime", "called")>> \o r.log
                  \o <<L("invoke_agent_runtime", "raised")>>]
    ELSE [exc |-> FALSE, ret |-> parse_response(RuntimeResponse(r.body)),
          cache |-> r.cache,
          pending |-> r.pending,
          log |-> <<L("invoke_agent_runtime", "called")>> \o r.log
                  \o <<L("invoke_agent_runtime", "returned")>>]

\* AgentCoreClient.invoke_agent(user_id, session_id, input_text): the text
\* returned or the exception raised, and what the agent leaves in its stores
client_invoke_agent(user_id, input_text, cache, pending, runtime, plan) ==
    IF runtime = "error"
    THEN [exc |-> TRUE, ret |-> EmptyStr, cache |-> cache, pending |-> pending,
          log |-> <<L("invoke_agent_runtime", "error")>>]
    ELSE client_parse_response(invoke_agent(InvokePayload(user_id, input_text), cache,
                                            pending, plan), runtime)

\* the plans to choose from for a body: the agent runs only on a body it accepts
PlansForBody(body, cache) ==
    IF "input" \in DOMAIN body /\ Truthy(Get(body.input, "prompt", EmptyStr))
    THEN PlansFor(cache, Get(body.input, "user_id", DefaultUser))
    ELSE {CHOOSE p \in AgentPlans : p.tools = 0 /\ ~p.fail}

----------------------------------------------------------------------------
(* The Worker's handler *)

WorkerResponse(status, body) == [statusCode |-> status, body |-> body]

\* a session id a Worker derived for a thread (and logged)
Session(worker, thread_id, sid) ==
    [worker |-> worker, thread_id |-> thread_id, session_id |-> sid]

\* the invocation of the Worker ends: what it returned and what it left behind
WorkerReply(resp, log, creds, bot, msgs, sessions, cache, pending) ==
    /\ response' = resp
    /\ calls' = log
    /\ worker_credentials' = creds
    /\ worker_bot_id' = bot
    /\ slack_messages' = msgs
    /\ derived_sessions' = sessions
    /\ token_cache' = cache
    /\ pending_auth_sessions' = pending
    /\ UNCHANGED <<deployment, clock, secret_store, environ, slack_credentials,
                   bot_user_id, slack_thread, request, worker_queue, worker_inbox,
                   args, result, identity_vars>>

\* except Exception: return {"statusCode": 500, ...}
worker_except == WorkerResponse(500, <<"Worker error">>)

\* the handler from the update of the interim message on
worker_update(event, text, thinking_ts, log, creds, bot, msgs, sessions, cache, pending) ==
    \E upd \in PostOutcomes :
    \E after \in {update_message(msgs, Get(event, "channel_id", EmptyStr), thinking_ts,
                                  text, upd)} :
        WorkerReply(IF upd = "ok" THEN WorkerResponse(200, <<"Success">>)
                    ELSE worker_except,
                    log \o <<L("chat.update", upd)>>, creds, bot, after, sessions, cache,
                    pending)

\* the handler from the call of the agent on
worker_invoke(event, user_message, sid, thinking_ts, log, creds, bot, msgs, sessions) ==
    \E runtime \in RuntimeOutcomes :
    \E user_id \in {agentcore_user_id(Get(event, "team_id", EmptyStr),
                                       Get(event, "user_id", EmptyStr))} :
    \E plan \in PlansForBody(InvokePayload(user_id, user_message), token_cache) :
    \E r \in {client_invoke_agent(user_id, user_message, token_cache,
                                   pending_auth_sessions, runtime, plan)} :
    \E log2 \in {log \o r.log} :
        IF r.exc
        THEN WorkerReply(worker_except, log2, creds, bot, msgs, sessions, r.cache,
                         r.pending)
        ELSE worker_update(event, agent_response(r.ret), thinking_ts, log2, creds, bot,
                           msgs, sessions, r.cache, r.pending)

\* the handler from the post of the interim message on
worker_post(event, slack_event, user_message, log, creds, bot) ==
    \E thread_id \in {Get(event, "thread_id", EmptyStr)} :
    \E s \in {session_id(thread_id)} :
        IF s.exc
        THEN WorkerReply(worker_except, log, creds, bot, slack_messages,
                         derived_sessions, token_cache, pending_auth_sessions)
        ELSE
        \E post \in PostChoices(Get(event, "channel_id", EmptyStr)) :
        \E msgs \in {post_message(slack_messages, Get(event, "channel_id", EmptyStr),
                                   Thinking, Get(slack_event, "ts", None), post)} :
        \E log2 \in {log \o <<L("chat.postMessage", post)>>} :
        \E sessions \in {derived_sessions
                          \cup {Session("interfaces", thread_id, s.ret)}} :
            IF post # "ok"
            THEN WorkerReply(worker_except, log2, creds, bot, msgs, sessions,
                             token_cache, pending_auth_sessions)
            ELSE worker_invoke(event, user_message, s.ret, PostedTs(Len(msgs)), log2,
                               creds, bot, msgs, sessions)

\* the handler from the gate on
worker_gate(event, log, creds, bot) ==
    \E slack_event \in {Get(event, "event", EmptyDict)} :
    \E channel_id \in {Get(event, "channel_id", EmptyStr)} :
    \E api \in IF worker_should_respond(slack_event, bot, channel_id, "first").lookups = 0
                THEN {"none"} ELSE RepliesOutcomes :
    \E d \in {worker_should_respond(slack_event, bot, channel_id, api)} :
    \E log2 \in {log \o (IF d.lookups = 0 THEN <<>>
                           ELSE <<L("conversations.replies", api)>>)} :
        IF d.exc
        THEN WorkerReply(worker_except, log2, creds, bot, slack_messages,
                         derived_sessions, token_cache, pending_auth_sessions)
        ELSE IF ~d.ret
        THEN WorkerReply(WorkerResponse(200, <<"Not responding">>), log2, creds, bot,
                         slack_messages, derived_sessions, token_cache,
                         pending_auth_sessions)
        ELSE \E user_message \in {clean_message(Get(slack_event, "text", EmptyStr))} :
            IF ~Truthy(user_message)
            THEN WorkerReply(WorkerResponse(200, <<"Empty message">>), log2, creds, bot,
                             slack_messages, derived_sessions, token_cache,
                             pending_auth_sessions)
            ELSE worker_post(event, slack_event, user_message, log2, creds, bot)

\* the messages posted so far leave room for one more
MessagesHaveRoom == Len(slack_messages) < MaxMessages

\* handler(event, _context) of the Worker, for the payload in request
worker_handler ==
    /\ deployment = "interfaces"
    /\ MessagesHaveRoom
    /\ \E sm \in SMChoices(worker_credentials) :
       \E c \in {worker_get_slack_credentials(worker_credentials, sm)} :
       \E log \in {SMLog(c, sm)} :
            IF ~Truthy(Get(c.value, "SLACK_BOT_TOKEN", EmptyStr))
            THEN WorkerReply(WorkerResponse(500, <<"Missing Slack credentials">>), log,
                             c.cache, worker_bot_id, slack_messages, derived_sessions,
                             token_cache, pending_auth_sessions)
            ELSE \E auth \in AuthChoices(worker_bot_id) :
                 \E b \in {worker_get_bot_user_id(worker_bot_id, auth)} :
                 \E log2 \in {log \o (IF b.called THEN <<L("auth.test", auth)>>
                                        ELSE <<>>)} :
                    IF ~Truthy(b.ret)
                    THEN WorkerReply(WorkerResponse(500, <<"Failed to get bot user ID">>),
                                     log2, c.cache, b.cache, slack_messages,
                                     derived_sessions, token_cache, pending_auth_sessions)
                    ELSE worker_gate(request, log2, c.cache, b.ret)

\* handler(event, _context) of the older Worker: AgentCoreClient(endpoint_arn=...,
\* region=...) lacks the runtime_id its __init__ requires and raises TypeError
app_worker_handler ==
    /\ deployment = "app"
    /\ \E sm \in SMChoices(worker_credentials) :
       \E c \in {worker_get_slack_credentials(worker_credentials, sm)} :
       \E log \in {SMLog(c, sm)} :
       \E raw \in {IF "command" \in DOMAIN request THEN Get(request, "text", EmptyStr)
                    ELSE Get(Get(request, "event", EmptyDict), "text", EmptyStr)} :
       \E thread_id \in {Get(request, "thread_id", EmptyStr)} :
            IF ~Truthy(Get(c.value, "SLACK_BOT_TOKEN", EmptyStr))
            THEN WorkerReply(WorkerResponse(500, <<"Missing Slack credentials">>), log,
                             c.cache, worker_bot_id, slack_messages, derived_sessions,
                             token_cache, pending_auth_sessions)
            ELSE IF raw = None
            THEN WorkerReply(worker_except, log, c.cache, worker_bot_id, slack_messages,
                             derived_sessions, token_cache, pending_auth_sessions)
            ELSE IF ~Truthy(IF "command" \in DOMAIN request THEN raw
                            ELSE clean_message(raw))
            THEN WorkerReply(WorkerResponse(200, <<"Empty message">>), log, c.cache,
                             worker_bot_id, slack_messages, derived_sessions,
                             token_cache, pending_auth_sessions)
            ELSE WorkerReply(worker_except, log \o <<L("AgentCoreClient", "TypeError")>>,
                             c.cache, worker_bot_id, slack_messages,
                             derived_sessions
                             \cup {Session("app", thread_id,
                                           app_session_id(thread_id,
                                                          Get(request, "user_id",
                                                              EmptyStr)))},
                             token_cache, pending_auth_sessions)

\* the users of the agent: the default of the context variable, and the id the
\* Worker builds for a Slack user
SlackUser == <<"slack-T1-U1">>
Users == {DefaultUser, SlackUser}

\* the bodies the agent is invoked with by hand
AgentBodies ==
    {[input |-> [prompt |-> <<"today?">>]],
     [input |-> [prompt |-> <<"today?">>, user_id |-> SlackUser]],
     [input |-> [user_id |-> SlackUser]],
     [prompt |-> <<"today?">>]}

\* request.input.get("user_id", "default") of a body
BodyUser(body) ==
    IF "input" \in DOMAIN body THEN Get(body.input, "user_id", DefaultUser)
    ELSE DefaultUser

\* what get_token returned in a log, call by call
TokenOutcomes(log) == {log[i].out : i \in {j \in 1..Len(log) : log[j].fn = "get_token"}}

\* the identity broker grants a token only for a grant it holds, and hands out
\* an authorization URL only when it holds none
BrokerGrants(broker, vault, user_id) ==
    \/ broker \in {"cached", "none", "no_sdk", "no_workload_token", "rejected"}
    \/ broker = "granted" /\ user_id \in vault
    \/ broker \in {"auth_url", "granted_after_url"} /\ user_id \notin vault

\* the grants the broker holds after a token request: a user who authorizes
\* while the SDK polls leaves a grant
VaultAfter(broker, vault, user_id) ==
    IF broker = "granted_after_url" THEN vault \cup {user_id} ELSE vault

\* a plan the broker and the tool can follow: the tool accepts no token whose
\* lifetime has passed
PlanPossible(plan, user_id, vault, expired) ==
    plan.tools > 0 =>
        /\ BrokerGrants(plan.broker, vault, user_id)
        /\ BrokerGrants(plan.broker2, VaultAfter(plan.broker, vault, user_id), user_id)
        /\ (plan.broker = "cached" /\ user_id \in expired) => plan.tool # "ok"

\* the state of the broker and of the granted tokens after the agent ran for
\* user_id with log
IdentityAfter(log, user_id) ==
    /\ token_vault' = IF "granted_after_url" \in TokenOutcomes(log)
                      THEN token_vault \cup {user_id} ELSE token_vault
    /\ auth_sessions' = IF "auth_url" \in TokenOutcomes(log)
                        THEN auth_sessions \cup {user_id}
                        ELSE IF "granted_after_url" \in TokenOutcomes(log)
                        THEN auth_sessions \ {user_id} ELSE auth_sessions
    /\ expired_tokens' = IF \E i \in 1..Len(log) : log[i].fn = "invalidate_token"
                         THEN expired_tokens \ {user_id} ELSE expired_tokens

\* invoke_agent(runtime_arn, prompt) of invoke_agent.py: the agent called by
\* hand; it raises when the runtime does and when the answer is no 2xx
direct_invoke ==
    /\ \E body \in AgentBodies, runtime \in RuntimeOutcomes \ {"relay"} :
       \E plan \in {q \in PlansForBody(body, token_cache) :
                        PlanPossible(q, BodyUser(body), token_vault, expired_tokens)} :
       \E r \in {invoke_agent(body, token_cache, pending_auth_sessions, plan)} :
            /\ request' = body
            /\ args' = NoCall
            /\ IF runtime = "error"
               THEN /\ response' = Raise
                    /\ calls' = <<L("invoke_agent_runtime", "error")>>
                    /\ UNCHANGED <<token_cache, pending_auth_sessions, identity_vars>>
               ELSE /\ response' = IF r.status = 200 THEN Return(r.body) ELSE Raise
                    /\ calls' = <<L("invoke_agent_runtime", "called")>> \o r.log
                    /\ token_cache' = r.cache
                    /\ pending_auth_sessions' = r.pending
                    /\ IdentityAfter(r.log, BodyUser(body))
    /\ UNCHANGED <<deployment, clock, secret_store, environ, slack_credentials,
                   bot_user_id, slack_thread, worker_queue, worker_inbox,
                   result, worker_credentials, worker_bot_id, slack_messages,
                   derived_sessions>>

\* the arguments of a direct call of invalidate_token
InvalidateArgs(cache, user_id) ==
    [fn |-> "invalidate_token", user_id |-> user_id, cache |-> cache]

\* OAuthTokenManager.invalidate_token(user_id) called for any user, with or
\* without cache entry; dict.pop(user_id, None) raises nothing
direct_invalidate ==
    /\ \E user_id \in Users :
            /\ token_cache' = invalidate_token(token_cache, user_id)
            /\ expired_tokens' = expired_tokens \ {user_id}
            /\ args' = InvalidateArgs(token_cache, user_id)
    /\ request' = NoneDict
    /\ response' = Return(None)
    /\ calls' = <<L("invalidate_token", "done")>>
    /\ UNCHANGED <<deployment, clock, secret_store, environ, slack_credentials,
                   bot_user_id, slack_thread, worker_queue, worker_inbox, result,
                   worker_credentials, worker_bot_id, pending_auth_sessions,
                   slack_messages, derived_sessions, auth_sessions, token_vault>>

\* the container of the agent ends and a new one starts: its stores are gone,
\* and so is the invocation it served last; the broker keeps its grants
agent_cold_start ==
    /\ token_cache # EmptyMap \/ pending_auth_sessions # EmptyMap
    /\ token_cache' = EmptyMap
    /\ pending_auth_sessions' = EmptyMap
    /\ expired_tokens' = {}
    /\ request' = NoneDict
    /\ response' = NoneDict
    /\ calls' = <<>>
    /\ args' = NoCall
    /\ UNCHANGED <<deployment, clock, secret_store, environ, slack_credentials,
                   bot_user_id, slack_thread, worker_queue, worker_inbox, result,
                   worker_credentials, worker_bot_id, slack_messages, derived_sessions,
                   auth_sessions, token_vault>>

\* the lifetime of a token the agent holds in its cache passes
token_expires ==
    /\ \E user_id \in DOMAIN token_cache \ expired_tokens :
            expired_tokens' = expired_tokens \cup {user_id}
    /\ UNCHANGED <<deployment, clock, secret_store, environ, slack_credentials,
                   bot_user_id, slack_thread, request, response, calls, worker_queue,
                   worker_inbox, args, result, worker_credentials, worker_bot_id,
                   token_cache, pending_auth_sessions, slack_messages,
                   derived_sessions, auth_sessions, token_vault>>

\* a user withdraws the grant: the broker holds it no longer
revoke_grant ==
    /\ \E user_id \in token_vault : token_vault' = token_vault \ {user_id}
    /\ UNCHANGED <<deployment, clock, secret_store, environ, slack_credentials,
                   bot_user_id, slack_thread, request, response, calls, worker_queue,
                   worker_inbox, args, result, worker_credentials, worker_bot_id,
                   token_cache, pending_auth_sessions, slack_messages,
                   derived_sessions, expired_tokens, auth_sessions>>

----------------------------------------------------------------------------
(* Authorization Completer: interfaces/slack/oauth_callback/handler.py *)

HtmlHeaders == [ContentType |-> <<"text/html; charset=utf-8">>]

\* SUCCESS_HTML, and ERROR_HTML_TEMPLATE.format(error_message=...)
SUCCESS_HTML == <<"<html>", "done", "</html>">>
ERROR_HTML_TEMPLATE(error_message) == <<"<html>", "error">> \o error_message \o <<"</html>">>

\* the error messages of the handler; that of an exception carries its text
NoSessionId == <<"session_id missing">>
NoUserId == <<"user_id missing">>
ValidationError(text) == <<"validation error: ">> \o text
AccessDenied == <<"access denied">>
SessionNotFound == <<"session not found, maybe expired">>
UnexpectedError(text) == <<"unexpected error: ">> \o text

\* _error_response(error_message)
error_response(error_message) ==
    [statusCode |-> 400, headers |-> HtmlHeaders,
     body |-> ERROR_HTML_TEMPLATE(error_message)]

\* the session reference the broker gives the authorization session of a user
SessionUri(user_id) == <<"urn:session:">> \o user_id
MalformedUri == <<"%%">>

\* what CompleteResourceTokenAuth can do: bind the session, or raise
\* ValidationException, AccessDeniedException, ResourceNotFoundException or
\* something else
CompletionOutcomes == {"ok", "validation", "access_denied", "not_found", "error"}

\* the outcomes the broker chooses from: it binds only an open session, and
\* only to the user who opened it; it may fail on any call
CompletionChoices(session_uri, user_id, sessions) ==
    {"error"} \cup
    (IF \A u \in Users : session_uri # SessionUri(u) THEN {"validation"}
     ELSE IF \A u \in sessions : session_uri # SessionUri(u) THEN {"not_found"}
     ELSE IF session_uri # SessionUri(user_id) THEN {"access_denied"}
     ELSE {"ok"})

\* the text of the exception the broker raises
ExceptionText(completion) == <<completion>>

\* a handler with one message for every failure of the broker
completion_response_generic(completion) ==
    IF completion = "ok"
    THEN [statusCode |-> 200, headers |-> HtmlHeaders, body |-> SUCCESS_HTML]
    ELSE error_response(UnexpectedError(ExceptionText(completion)))

\* the response of the handler once the broker has answered
completion_response(completion) ==
    IF completion = "ok"
    THEN [statusCode |-> 200, headers |-> HtmlHeaders, body |-> SUCCESS_HTML]
    ELSE IF completion = "validation"
    THEN error_response(ValidationError(ExceptionText(completion)))
    ELSE IF completion = "access_denied" THEN error_response(AccessDenied)
    ELSE IF completion = "not_found" THEN error_response(SessionNotFound)
    ELSE error_response(UnexpectedError(ExceptionText(completion)))

\* event.get("queryStringParameters") or {}
query_params(event) ==
    IF "queryStringParameters" \notin DOMAIN event THEN EmptyDict
    ELSE IF IsNoneDict(event.queryStringParameters) THEN EmptyDict
    ELSE event.queryStringParameters

\* the arguments of complete_resource_token_auth
CompletionArgs(session_uri, user_id) ==
    [fn |-> "complete_resource_token_auth", sessionUri |-> session_uri,
     userIdentifier |-> [userId |-> user_id]]

\* a handler that calls the broker with whatever the query string holds
oauth_callback_unchecked(event, completion) ==
    [resp |-> completion_response(completion),
     args |-> CompletionArgs(Get(query_params(event), "session_id", None),
                             Get(query_params(event), "state", None)),
     completed |-> completion = "ok",
     log |-> <<L("oauth_callback", "complete"),
               L("complete_resource_token_auth", completion)>>]

\* handler(event, context) of the callback: its response, the call of the
\* broker it made if it made one, and the outcome of that call
oauth_callback(event, completion) ==
    IF ~Truthy(Get(query_params(event), "session_id", None))
    THEN [resp |-> error_response(NoSessionId), args |-> NoCall, completed |-> FALSE,
          log |-> <<L("oauth_callback", "no_session_id")>>]
    ELSE IF ~Truthy(Get(query_params(event), "state", None))
    THEN [resp |-> error_response(NoUserId), args |-> NoCall, completed |-> FALSE,
          log |-> <<L("oauth_callback", "no_user_id")>>]
    ELSE [resp |-> completion_response(completion),
          args |-> CompletionArgs(query_params(event).session_id,
                                  query_params(event).state),
          completed |-> completion = "ok",
          log |-> <<L("oauth_callback", "complete"),
                    L("complete_resource_token_auth", completion)>>]

\* the callbacks that arrive: without query string, with a parameter absent or
\* empty, with a session reference that is none, and with the session of one
\* user and the id of the same or of another
OAuthCallbackEvents ==
    {[httpMethod |-> <<"GET">>], [queryStringParameters |-> NoneDict]}
    \cup {[queryStringParameters |-> Dict([session_id |-> s, state |-> SlackUser])] :
            s \in {Absent, EmptyStr, MalformedUri}}
    \cup {[queryStringParameters |-> Dict([session_id |-> SessionUri(SlackUser),
                                          state |-> u])] : u \in {Absent, EmptyStr}}
    \cup {[queryStringParameters |-> [session_id |-> SessionUri(v), state |-> u]] :
            v \in Users, u \in Users}

\* the outcomes of the broker for an event; "none" when it is not called
CompletionsFor(event, sessions) ==
    IF Truthy(Get(query_params(event), "session_id", None))
       /\ Truthy(Get(query_params(event), "state", None))
    THEN CompletionChoices(query_params(event).session_id, query_params(event).state,
                           sessions)
    ELSE {"none"}

\* the callback Lambda handles a redirect; a session the broker binds leaves a
\* grant for its user. The Lambda shares nothing with the agent's process.
oauth_callback_handler ==
    /\ \E event \in OAuthCallbackEvents :
       \E completion \in CompletionsFor(event, auth_sessions) :
       \E r \in {oauth_callback(event, completion)} :
            /\ request' = event
            /\ response' = Return(r.resp)
            /\ calls' = r.log
            /\ args' = r.args
            /\ token_vault' = IF r.completed
                              THEN token_vault \cup {query_params(event).state}
                              ELSE token_vault
            /\ auth_sessions' = IF r.completed
                                THEN auth_sessions \ {query_params(event).state}
                                ELSE auth_sessions
    /\ UNCHANGED <<deployment, clock, secret_store, environ, slack_credentials,
                   bot_user_id, slack_thread, worker_queue, worker_inbox, result,
                   worker_credentials, worker_bot_id, token_cache,
                   pending_auth_sessions, slack_messages, derived_sessions,
                   expired_tokens>>

\* a Worker process ends and a new one starts: the module globals are gone
worker_cold_start ==
    /\ ~IsNoneDict(worker_credentials) \/ worker_bot_id # None
    /\ worker_credentials' = NoneDict
    /\ worker_bot_id' = None
    /\ UNCHANGED <<deployment, clock, secret_store, environ, slack_credentials,
                   bot_user_id, slack_thread, request, response, calls, worker_queue,
                   worker_inbox, args, result, token_cache, pending_auth_sessions,
                   slack_messages, derived_sessions, identity_vars>>

----------------------------------------------------------------------------
(* Specification of the Processing Stage and the reasoning engine *)

\* the payloads the Worker is invoked with: what the Receiver builds for a
\* mention in a channel, a reply without mention in the thread, a mention and
\* nothing else, a mention inside the thread, an event with "text": null, and a
\* slash command
WorkerPayloads ==
    {EventPayload(CallbackDoc(e), e) :
        e \in {SlackEvent(User1, Absent, MentionText, Absent, MsgTs),
               SlackEvent(User1, Absent, <<"follow", " ", "up">>, ThreadTs, MsgTs),
               SlackEvent(User1, Absent, Mention(BotId), Absent, MsgTs),
               SlackEvent(User1, Absent, MentionText, ThreadTs, MsgTs),
               SlackEvent(User1, Absent, None, Absent, MsgTs)}}
    \cup {CommandPayload(CommandDoc)}

\* the fields of a payload the Worker reads
RequiredFields == {"user_id", "team_id", "channel_id", "thread_id", "event"}

\* a payload without one of its fields
Lacking(payload, field) == [k \in DOMAIN payload \ {field} |-> payload[k]]

\* the payload of a mention in a channel, with one field missing
MalformedPayloads ==
    {Lacking(EventPayload(CallbackDoc(e), e), f) :
        e \in {SlackEvent(User1, Absent, MentionText, Absent, MsgTs)},
        f \in RequiredFields}

\* the user id the Worker builds for the Slack user of its payloads
WorkerUser == agentcore_user_id(<<"T1">>, User1)

\* the Worker starts with or without a grant of its user at the broker: the
\* user has or has not gone through the authorization before
InitWorker ==
    /\ InitCommon
    /\ token_vault \in {{}, {WorkerUser}}
    /\ environ = [PATH |-> <<"/bin">>]
    /\ secret_store \in {SecretFull, SecretNoToken}
    /\ slack_thread \in {ThreadOf(2, 0), ThreadOf(2, 2)}
    /\ request \in WorkerPayloads \cup MalformedPayloads

NextWorker == worker_handler \/ app_worker_handler \/ worker_cold_start

SpecWorker == InitWorker /\ [][NextWorker]_vars

----------------------------------------------------------------------------
(* Specification of the reasoning engine called by hand *)

InitAgent ==
    /\ InitCommon
    /\ token_vault = {}
    /\ deployment = "interfaces"
    /\ environ = [PATH |-> <<"/bin">>]
    /\ secret_store = SecretFull
    /\ slack_thread = <<>>
    /\ request = NoneDict

NextAgent ==
    \/ direct_invoke
    \/ agent_cold_start
    \/ token_expires
    \/ revoke_grant
    \/ oauth_callback_handler
    \/ direct_invalidate

SpecAgent == InitAgent /\ [][NextAgent]_vars

----------------------------------------------------------------------------
(* Specification of the reply: the Worker after invoke_agent_runtime returned *)

\* the bound on the lines of the body of an answer
MaxLines == 2

\* the JSON documents of an answer: a Strands result with a text, the same as
\* agent.py wraps it, a result with an empty text, with "text": null, without
\* content, with a tool use only, with "message": null, the 422 of the agent, and
\* a JSON string
ReplyDocs ==
    {[message |-> AgentMessage(Answer)],
     [output |-> [message |-> AgentMessage(Answer)]],
     [message |-> AgentMessage(EmptyStr)],
     [message |-> AgentMessage(None)],
     [message |-> [role |-> <<"assistant">>, content |-> <<>>]],
     [message |-> [role |-> <<"assistant">>, content |-> <<[toolUse |-> <<"calendar">>]>>]],
     [message |-> NoneDict],
     [detail |-> <<"input: field required">>],
     JsonString(Answer)}

\* the lines of an answer: data lines with a document, with a text that is no
\* JSON, with nothing; an empty line; and documents sent as they are
ReplyLines ==
    {Line(TRUE, JsonBody(d)) : d \in ReplyDocs}
    \cup {Line(TRUE, TextBody([text |-> Answer])), Line(TRUE, EmptyBody),
          Line(FALSE, EmptyBody)}
    \cup {Line(FALSE, JsonBody(d)) :
            d \in {[message |-> AgentMessage(Answer)],
                   [output |-> [message |-> AgentMessage(Answer)]]}}

\* what invoke_agent_runtime returns
RuntimeResponses ==
    {[contentType |-> t, response |-> b] :
        t \in {TextEventStream, TextEventStream \o <<"; charset=utf-8">>,
               ApplicationJson, <<"text/plain">>},
        b \in UNION {[1..n -> ReplyLines] : n \in 0..MaxLines}}

\* a Worker that has posted the interim message for a mention and has called
\* the reasoning engine
InitReply ==
    /\ deployment = "interfaces"
    /\ clock = Epoch * TicksPerSecond
    /\ secret_store = SecretFull
    /\ environ = [PATH |-> <<"/bin">>]
    /\ slack_credentials = NoneDict
    /\ bot_user_id = None
    /\ slack_thread = <<>>
    /\ request = EventPayload(CallbackDoc(SlackEvent(User1, Absent, MentionText, Absent, MsgTs)),
                              SlackEvent(User1, Absent, MentionText, Absent, MsgTs))
    /\ response = NoneDict
    /\ calls = <<L("chat.postMessage", "ok")>>
    /\ worker_queue = <<>>
    /\ worker_inbox = <<>>
    /\ args \in {[fn |-> "invoke_agent_runtime", response |-> r] : r \in RuntimeResponses}
    /\ result = Return(FALSE)
    /\ worker_credentials = SecretFull
    /\ worker_bot_id = BotId
    /\ token_cache = EmptyMap
    /\ pending_auth_sessions = EmptyMap
    /\ slack_messages = post_message(<<>>, Channel, Thinking, MsgTs, "ok")
    /\ derived_sessions = {Session("interfaces", MsgTs, session_id(MsgTs).ret)}
    /\ expired_tokens = {}
    /\ auth_sessions = {}
    /\ token_vault = {}

\* the handler from the return of invoke_agent_runtime on: _parse_response, the
\* default for an empty text, and the update of the interim message
worker_reply ==
    /\ args.fn = "invoke_agent_runtime"
    /\ IsNoneDict(response)
    /\ \E text \in {parse_response(args.response)} :
        worker_update(request, agent_response(text), PostedTs(Len(slack_messages)),
                      calls \o <<L("_parse_response", text)>>, worker_credentials,
                      worker_bot_id, slack_messages, derived_sessions, token_cache,
                      pending_auth_sessions)

NextReply == worker_reply

SpecReply == InitReply /\ [][NextReply]_vars

----------------------------------------------------------------------------
(* Specification of the sessions of threads: the thread id the Receiver puts *)
(* into the payload of an event and the session id the Worker derives from it *)

\* the ts of the messages
MessageTimes == {<<"100.0">>, <<"200.0">>, <<"999.0">>}

\* the events of the threads of two channels: a message of its own (no
\* thread_ts), or a reply in the thread of another message
ThreadEvents ==
    {[SlackEvent(User1, Absent, MentionText, thread_ts, ts) EXCEPT !.channel = channel] :
        thread_ts \in {Absent} \cup MessageTimes, ts \in MessageTimes,
        channel \in {Channel, <<"C2">>}}

\* the Receiver and the Worker before two events are handled
InitThread ==
    /\ deployment = "interfaces"
    /\ clock = Epoch * TicksPerSecond
    /\ secret_store = SecretFull
    /\ environ = [PATH |-> <<"/bin">>]
    /\ slack_credentials = SecretFull
    /\ bot_user_id = BotId
    /\ slack_thread = <<>>
    /\ request = NoneDict
    /\ response = NoneDict
    /\ calls = <<>>
    /\ worker_queue = <<>>
    /\ worker_inbox = <<>>
    /\ args \in {[fn |-> "session_id", first |-> e1, second |-> e2] :
                    e1 \in ThreadEvents, e2 \in ThreadEvents}
    /\ result = Return(FALSE)
    /\ InitWorkerVars
    /\ token_vault = {}

\* the session the Worker derives for the payload the Receiver builds for an event
SessionOfEvent(slack_event) ==
    session_id(EventPayload(CallbackDoc(slack_event), slack_event).thread_id)

\* the Receiver builds the payloads of the two events and the Worker derives
\* their session ids
derive_session_ids ==
    /\ args.fn = "session_id"
    /\ result = Return(FALSE)
    /\ result' = [exc |-> SessionOfEvent(args.first).exc \/ SessionOfEvent(args.second).exc,
                  ret |-> TRUE,
                  first |-> SessionOfEvent(args.first).ret,
                  second |-> SessionOfEvent(args.second).ret]
    /\ UNCHANGED <<deployment, clock, secret_store, environ, slack_credentials,
                   bot_user_id, slack_thread, request, response, calls, worker_queue,
                   worker_inbox, args, worker_vars>>

NextThread == derive_session_ids

SpecThread == InitThread /\ [][NextThread]_vars

----------------------------------------------------------------------------
(* Specification of the composed system: Slack sends the message of a user  *)
(* and every message the bot posts or edits to the Receiver, Lambda hands    *)
(* the payloads of the Receiver to the Worker                                *)

\* the marker Slack puts on the messages of the bot
BotMarker == <<"B1">>

\* the message of the user: a mention that starts a thread, or a reply with or
\* without mention in that thread
UserEvents ==
    {SlackEvent(User1, Absent, MentionText, Absent, ThreadTs),
     SlackEvent(User1, Absent, MentionText, ThreadTs, MsgTs),
     SlackEvent(User1, Absent, <<"follow", " ", "up">>, ThreadTs, MsgTs)}

\* the event Slack sends for the message the bot posted
EchoOfPost(m) ==
    [type |-> <<"message">>, channel |-> m.channel, user |-> BotId,
     bot_id |-> BotMarker, text |-> Thinking, thread_ts |-> m.thread_ts, ts |-> m.ts]

\* the event Slack sends for the edit of that message: the message is inside
EchoOfEdit(m) ==
    [type |-> <<"message">>, subtype |-> <<"message_changed">>, channel |-> m.channel,
     hidden |-> <<"true">>, ts |-> <<"999.0">>,
     message |-> [type |-> <<"message">>, user |-> BotId, bot_id |-> BotMarker,
                  text |-> m.text, thread_ts |-> m.thread_ts, ts |-> m.ts]]

\* the events Slack has to send: that of the user and, for each message of the
\* bot, that of its post and that of its edit
SlackOutbox ==
    {<<"user", 0>>}
    \cup {<<"post", i>> : i \in 1..Len(slack_messages)}
    \cup {<<"edit", i>> : i \in {j \in 1..Len(slack_messages) : slack_messages[j].edits > 0}}

EventOf(key) ==
    IF key[1] = "user" THEN args.event
    ELSE IF key[1] = "post" THEN EchoOfPost(slack_messages[key[2]])
    ELSE EchoOfEdit(slack_messages[key[2]])

\* no invocation of a Lambda is under way
Idle == IsNoneDict(request) \/ ~IsNoneDict(response)

InitLoop ==
    /\ deployment = "interfaces"
    /\ clock = Epoch * TicksPerSecond
    /\ secret_store = SecretFull
    /\ environ = [PATH |-> <<"/bin">>]
    /\ slack_credentials = NoneDict
    /\ bot_user_id = None
    /\ slack_thread \in {ThreadOf(1, 0), ThreadOf(2, 2)}
    /\ request = NoneDict
    /\ response = NoneDict
    /\ calls = <<>>
    /\ worker_queue = <<>>
    /\ worker_inbox = <<>>
    /\ args \in {[fn |-> "slack", event |-> e, sent |-> {}] : e \in UserEvents}
    /\ result = Return(FALSE)
    /\ InitWorkerVars
    /\ token_vault = {}

\* Slack sends one of its events to the Receiver
slack_sends ==
    /\ Idle
    /\ \E key \in SlackOutbox \ args.sent :
        /\ args' = [args EXCEPT !.sent = @ \cup {key}]
        /\ request' = Signed(CanonicalNames, JsonBody(CallbackDoc(EventOf(key))))
    /\ response' = NoneDict
    /\ calls' = <<>>
    /\ UNCHANGED <<deployment, clock, secret_store, environ, slack_credentials,
                   bot_user_id, slack_thread, worker_queue, worker_inbox, result,
                   worker_vars>>

\* the Receiver handles the event Slack sent
receiver_handles ==
    /\ "httpMethod" \in DOMAIN request
    /\ IsNoneDict(response)
    /\ QueueHasRoom
    /\ handler_on(request)

\* Lambda starts the Worker with the oldest payload of the queue
lambda_starts_worker ==
    /\ Idle
    /\ worker_queue # <<>>
    /\ request' = Head(worker_queue)
    /\ worker_inbox' = Head(worker_queue)
    /\ worker_queue' = Tail(worker_queue)
    /\ response' = NoneDict
    /\ calls' = <<>>
    /\ UNCHANGED <<deployment, clock, secret_store, environ, slack_credentials,
                   bot_user_id, slack_thread, args, result, worker_vars>>

\* the Worker handles the payload
worker_handles ==
    /\ "thread_id" \in DOMAIN request
    /\ IsNoneDict(response)
    /\ worker_handler

NextLoop == slack_sends \/ receiver_handles \/ lambda_starts_worker \/ worker_handles

\* Slack sends its events and Lambda runs its functions in the end
SpecLoop == InitLoop /\ [][NextLoop]_vars /\ WF_vars(NextLoop)

----------------------------------------------------------------------------
(* Specification of the agent under concurrent invocations: each invocation  *)
(* runs invoke_agent, call_tool, get_token and invalidate_token statement    *)
(* by statement, interleaved with the others, on the one _token_cache        *)

\* the number of invocations under way at a time
MaxInvocations == 2
Invocations == 1..MaxInvocations

\* a second Slack user
OtherUser == <<"slack-T1-U2">>

\* request.input of the invocations
InvocationInputs ==
    {[prompt |-> <<"today?">>, user_id |-> SlackUser],
     [prompt |-> <<"today?">>, user_id |-> OtherUser],
     [prompt |-> <<"today?">>]}

\* the token the broker grants for the workload token of user_id: the first
\* one of that user that no tool has rejected
GrantedToken(user_id, rejected) ==
    [user |-> user_id, n |-> Cardinality({t \in rejected : t.user = user_id})]

\* a context variable kept in one global of the module
current_user_id_set_global(context, i, user_id) == [j \in DOMAIN context |-> user_id]

\* current_user_id.set(user_id) and current_user_id.reset(token) in the
\* context of invocation i
current_user_id_set(context, i, user_id) ==
    [context EXCEPT ![i] = user_id]

\* current_user_id.get() in the context of invocation i
current_user_id_get(context, i) == context[i]

\* no token: the None of get_token's pair, and of a variable not yet bound
NoToken == [user |-> None, n |-> 0]

\* an invocation before its first statement
NewInvocation(input) ==
    [input |-> input, pc |-> "invoke_agent", user_id |-> None, token |-> NoToken,
     cached |-> FALSE, stale |-> FALSE, retry |-> FALSE, injected |-> NoToken]

InitTokens ==
    /\ deployment = "interfaces"
    /\ clock = Epoch * TicksPerSecond
    /\ secret_store = SecretFull
    /\ environ = [PATH |-> <<"/bin">>]
    /\ slack_credentials = NoneDict
    /\ bot_user_id = None
    /\ slack_thread = <<>>
    /\ request = NoneDict
    /\ response = NoneDict
    /\ calls = <<>>
    /\ worker_queue = <<>>
    /\ worker_inbox = <<>>
    /\ args \in {[fn |-> "invocations", inv |-> v,
                  context |-> [i \in Invocations |-> DefaultUser],
                  rejected |-> {}, invalidated |-> {}] :
                    v \in [Invocations -> {NewInvocation(b) : b \in InvocationInputs}]}
    /\ result = Return(FALSE)
    /\ InitWorkerVars
    /\ token_vault = {}

\* invocation i goes on with the fields of f, the rest of the state kept
Goes(i, f, context, cache, rejected, invalidated) ==
    /\ args' = [args EXCEPT !.inv[i] = f, !.context = context,
                            !.rejected = rejected, !.invalidated = invalidated]
    /\ token_cache' = cache
    /\ UNCHANGED <<deployment, clock, secret_store, environ, slack_credentials,
                   bot_user_id, slack_thread, request, response, calls, worker_queue,
                   worker_inbox, result, worker_credentials, worker_bot_id,
                   pending_auth_sessions, slack_messages, derived_sessions,
                   identity_vars>>

Local(i, f) == Goes(i, f, args.context, token_cache, args.rejected, args.invalidated)

At(i, pc) == args.fn = "invocations" /\ args.inv[i].pc = pc

\* invoke_agent: token = current_user_id.set(user_id), and the agent calls a
\* tool or answers without one
invocation_sets_user(i) ==
    /\ At(i, "invoke_agent")
    /\ \E tool \in BOOLEAN :
        Goes(i, [args.inv[i] EXCEPT !.pc = IF tool THEN "call_tool" ELSE "reset"],
             current_user_id_set(args.context, i,
                                 Get(args.inv[i].input, "user_id", DefaultUser)),
             token_cache, args.rejected, args.invalidated)

\* call_tool: user_id = current_user_id.get()
call_tool_reads_user(i) ==
    /\ At(i, "call_tool")
    /\ Local(i, [args.inv[i] EXCEPT !.pc = "get_token",
                                    !.user_id = current_user_id_get(args.context, i)])

\* where get_token returns to: call_tool's first call, or the one after a 401
Returned(f) == IF f.retry THEN "reset" ELSE "inject"

\* get_token: if user_id in self._token_cache: return self._token_cache[user_id]
get_token_checks_cache(i) ==
    /\ At(i, "get_token")
    /\ IF args.inv[i].user_id \in DOMAIN token_cache
       THEN Local(i, [args.inv[i] EXCEPT
                        !.pc = Returned(args.inv[i]),
                        !.token = token_cache[args.inv[i].user_id],
                        !.cached = TRUE,
                        !.stale = token_cache[args.inv[i].user_id] \in args.invalidated])
       ELSE Local(i, [args.inv[i] EXCEPT !.pc = "await_get_token", !.cached = FALSE])

\* get_token: token = await client.get_token(...): the broker grants a token
\* for the user, or none
get_token_awaits_broker(i) ==
    /\ At(i, "await_get_token")
    /\ \/ Local(i, [args.inv[i] EXCEPT
                        !.pc = "store",
                        !.token = GrantedToken(args.inv[i].user_id, args.rejected)])
       \/ Local(i, [args.inv[i] EXCEPT !.pc = "reset", !.token = NoToken])

\* get_token: self._token_cache[user_id] = token; return token, None
get_token_stores(i) ==
    /\ At(i, "store")
    /\ Goes(i, [args.inv[i] EXCEPT !.pc = Returned(args.inv[i])], args.context,
            Put(token_cache, args.inv[i].user_id, args.inv[i].token),
            args.rejected, args.invalidated)

\* call_tool: mcp_client.call_tool_sync(arguments={..., "access_token": token}),
\* which returns or raises a 401
call_tool_injects(i) ==
    /\ At(i, "inject")
    /\ \/ Local(i, [args.inv[i] EXCEPT !.pc = "reset", !.injected = args.inv[i].token])
       \/ Goes(i, [args.inv[i] EXCEPT !.pc = "invalidate",
                                      !.injected = args.inv[i].token],
               args.context, token_cache,
               args.rejected \cup {args.inv[i].token}, args.invalidated)

\* call_tool: self.token_manager.invalidate_token(user_id), then get_token again
call_tool_invalidates(i) ==
    /\ At(i, "invalidate")
    /\ Goes(i, [args.inv[i] EXCEPT !.pc = "get_token", !.retry = TRUE],
            args.context, invalidate_token(token_cache, args.inv[i].user_id),
            args.rejected, args.invalidated \cup {args.inv[i].injected})

\* invoke_agent: finally: current_user_id.reset(token)
invocation_resets_user(i) ==
    /\ At(i, "reset")
    /\ Goes(i, [args.inv[i] EXCEPT !.pc = "done"],
            current_user_id_set(args.context, i, DefaultUser),
            token_cache, args.rejected, args.invalidated)

NextTokens ==
    \E i \in Invocations :
        \/ invocation_sets_user(i)
        \/ call_tool_reads_user(i)
        \/ get_token_checks_cache(i)
        \/ get_token_awaits_broker(i)
        \/ get_token_stores(i)
        \/ call_tool_injects(i)
        \/ call_tool_invalidates(i)
        \/ invocation_resets_user(i)

SpecTokens == InitTokens /\ [][NextTokens]_vars

----------------------------------------------------------------------------
(* Specification of concurrent Workers: each invocation runs the handler     *)
(* from the post of its interim message on, call by call, interleaved with   *)
(* the others on the one Slack workspace                                     *)

\* the payloads of the invocations: mentions in one thread, or in another
\* channel
ConcurrentPayloads ==
    {[channel_id |-> c, thread_id |-> ThreadTs, user_id |-> User1, team_id |-> <<"T1">>,
      event |-> [SlackEvent(User1, Absent, MentionText, ThreadTs, MsgTs)
                    EXCEPT !.channel = c]] : c \in {Channel, <<"C2">>}}

\* what chat.postMessage answers when it says so: {"ok": true, "ts": ...}
PostResponse(msgs) == [ok |-> TRUE, ts |-> msgs[Len(msgs)].ts]

\* the answer of the agent to invocation i
AnswerTo(i) == <<"answer ", DigitChar(i)>>

\* a Worker before its post
NewWorker(payload) ==
    [event |-> payload, pc |-> "post_message", thinking_ts |-> EmptyStr,
     agent_response |-> EmptyStr, posted |-> 0, updated |-> None]

InitWorkers ==
    /\ deployment = "interfaces"
    /\ clock = Epoch * TicksPerSecond
    /\ secret_store = SecretFull
    /\ environ = [PATH |-> <<"/bin">>]
    /\ slack_credentials = NoneDict
    /\ bot_user_id = None
    /\ slack_thread = <<>>
    /\ request = NoneDict
    /\ response = NoneDict
    /\ calls = <<>>
    /\ worker_queue = <<>>
    /\ worker_inbox = <<>>
    /\ args \in {[fn |-> "workers", inv |-> v] :
                    v \in [Invocations -> {NewWorker(e) : e \in ConcurrentPayloads}]}
    /\ result = Return(FALSE)
    /\ InitWorkerVars
    /\ token_vault = {}

\* Worker i goes on with the fields of f and Slack holds msgs
WorkerGoes(i, f, msgs) ==
    /\ args' = [args EXCEPT !.inv[i] = f]
    /\ slack_messages' = msgs
    /\ UNCHANGED <<deployment, clock, secret_store, environ, slack_credentials,
                   bot_user_id, slack_thread, request, response, calls, worker_queue,
                   worker_inbox, result, worker_credentials, worker_bot_id,
                   token_cache, pending_auth_sessions, derived_sessions, identity_vars>>

WorkerAt(i, pc) == args.fn = "workers" /\ args.inv[i].pc = pc

\* thinking_response = slack_client.post_message(channel_id, "考え中...", thread_ts)
\* and thinking_ts = thinking_response.get("ts", "")
worker_posts(i) ==
    /\ WorkerAt(i, "post_message")
    /\ \E post \in PostChoices(Get(args.inv[i].event, "channel_id", EmptyStr)) :
       \E msgs \in {post_message(slack_messages,
                                  Get(args.inv[i].event, "channel_id", EmptyStr), Thinking,
                                  Get(Get(args.inv[i].event, "event", EmptyDict), "ts", None),
                                  post)} :
            IF post = "ok"
            THEN WorkerGoes(i, [args.inv[i] EXCEPT
                                    !.pc = "invoke_agent",
                                    !.thinking_ts = Get(PostResponse(msgs), "ts", EmptyStr),
                                    !.posted = Len(msgs)], msgs)
            ELSE WorkerGoes(i, [args.inv[i] EXCEPT
                                    !.pc = "failed",
                                    !.posted = IF post = "error" THEN 0 ELSE Len(msgs)],
                            msgs)

\* result = agentcore_client.invoke_agent(...), which returns a text or raises
worker_invokes_agent(i) ==
    /\ WorkerAt(i, "invoke_agent")
    /\ \/ \E text \in {AnswerTo(i), EmptyStr} :
            WorkerGoes(i, [args.inv[i] EXCEPT !.pc = "update_message",
                                              !.agent_response = agent_response(text)],
                       slack_messages)
       \/ WorkerGoes(i, [args.inv[i] EXCEPT !.pc = "failed"], slack_messages)

\* slack_client.update_message(channel_id, thinking_ts, agent_response)
worker_updates(i) ==
    /\ WorkerAt(i, "update_message")
    /\ \E upd \in PostOutcomes :
        WorkerGoes(i, [args.inv[i] EXCEPT !.pc = IF upd = "ok" THEN "done" ELSE "failed",
                                          !.updated = args.inv[i].thinking_ts],
                   update_message(slack_messages,
                                  Get(args.inv[i].event, "channel_id", EmptyStr),
                                  args.inv[i].thinking_ts, args.inv[i].agent_response,
                                  upd))

NextWorkers ==
    \E i \in Invocations : worker_posts(i) \/ worker_invokes_agent(i) \/ worker_updates(i)

SpecWorkers == InitWorkers /\ [][NextWorkers]_vars

----------------------------------------------------------------------------
(* Properties of the Processing Stage, under SpecWorker and SpecAgent *)

\* the length AgentCore requires of a runtimeSessionId
MinSessionIdLen == 33

\* an invocation of a Worker has returned
WorkerHandled == ~IsNoneDict(response) /\ "statusCode" \in DOMAIN response

\* the sessions of the Worker deployed with the interfaces stack obey the claim
\* of C17: one id per thread, long enough
InterfacesSessionsSound ==
    \A s \in derived_sessions :
        s.worker = "interfaces" =>
            /\ len(s.session_id) >= MinSessionIdLen
            /\ s.session_id = <<"uuid5:">> \o SLACK_SESSION_NAMESPACE \o <<"/">> \o s.thread_id

\* C17: the session id a Worker derives from a thread id is the same in every
\* invocation and every process (it is a function of the fixed namespace and
\* the thread id alone) and has at least 33 characters.
C17_SessionIdDeterministicAndLong ==
    /\ \A s, t \in derived_sessions :
        (s.worker = t.worker /\ s.thread_id = t.thread_id) => s.session_id = t.session_id
    /\ \A s \in derived_sessions : len(s.session_id) >= MinSessionIdLen

\* the positions of the calls of fn in the log of the last invocation
Idx(fn) == {i \in 1..Len(calls) : calls[i].fn = fn}

\* every position of A is before every position of B
Before(A, B) == \A i \in A, j \in B : i < j

\* the Worker's invocation ran to its end: 200 "Success"
WorkerSucceeded == WorkerHandled /\ response = WorkerResponse(200, <<"Success">>)

TokenInsideReasoning ==
    /\ \A g \in Idx("get_token") :
        /\ \E v \in Idx("invoke_agent_runtime") : v < g /\ calls[v].out = "called"
        /\ \E s \in Idx("strands_agent") : s < g /\ calls[s].out = "started"
    /\ \A t \in Idx("call_tool_sync") : \E g \in Idx("get_token") : g < t

Posts == {i \in Idx("chat.postMessage") : calls[i].out # "error"}
Edits == {i \in Idx("chat.update") : calls[i].out # "error"}

\* the event of the payload mentions the bot: the Worker's gate says True
RequestMentionsBot ==
    /\ "event" \in DOMAIN request
    /\ Get(request.event, "text", EmptyStr) # None
    /\ Contains(Get(request.event, "text", EmptyStr), Mention(BotId))

PendingSignal ==
    /\ Idx("get_token") # {}
    /\ \A g \in Idx("get_token") :
        (\A h \in Idx("get_token") : h <= g) => calls[g].out = "auth_url"

\* what get_token leaves behind with the pending signal: no token cached for
\* the user, and the URL of the broker kept for the user
PendingSignalSound ==
    PendingSignal =>
        LET user_id == Get(request.input, "user_id", DefaultUser)
        IN  /\ user_id \notin DOMAIN token_cache
            /\ user_id \in DOMAIN pending_auth_sessions
            /\ pending_auth_sessions[user_id] = AuthUrl

\* a message of the bot shows the authorization URL
AuthPromptShown ==
    \E i \in 1..Len(slack_messages) :
        slack_messages[i].edits = 1 /\ Contains(slack_messages[i].text, AuthUrl)

\* C20 (Scenario D): when the token cache is empty for the user and the grant
\* request yields an authorization URL, get_token returns the pending signal,
\* the interim message is replaced by a prompt that contains exactly that URL,
\* and the reasoning engine is not called.
C20_AuthPromptWithoutReasoning ==
    PendingSignal => (AuthPromptShown /\ Idx("strands_agent") = {})

----------------------------------------------------------------------------
(* Token Manager and Authorization Completer *)

\* the last invocation was one of the agent and ran for this user
AgentUser == BodyUser(request)

\* Scenario E: get_token returned the cached token and the tool rejected it
\* with a 401
RejectedCalls ==
    {j \in Idx("call_tool_sync") :
        /\ calls[j].out = "unauthorized"
        /\ \E i \in Idx("get_token") : i < j /\ calls[i].out = "cached"}

\* the calls of fn made after call j
After(j, fn) == {k \in Idx(fn) : k > j}

\* after the rejection the Token Manager drops the cached token and is asked
\* for a token exactly once more, and not from its cache
InvalidatedAndRetriedOnce ==
    \A j \in RejectedCalls :
        /\ Cardinality(After(j, "invalidate_token")) = 1
        /\ Cardinality(After(j, "get_token")) = 1
        /\ \A k \in After(j, "get_token") :
            /\ calls[k].out # "cached"
            /\ \A i \in After(j, "invalidate_token") : i < k

\* if the retry yields the pending signal, call_tool returns the prompt
PendingRetryYieldsPrompt ==
    \A j \in RejectedCalls : \A k \in After(j, "get_token") :
        calls[k].out = "auth_url" =>
            \E c \in After(k, "call_tool") : calls[c].out = "auth_required"

\* if the retry yields a fresh token, the tool is called again with it
FreshRetryCallsToolAgain ==
    \A j \in RejectedCalls : \A k \in After(j, "get_token") :
        calls[k].out \in {"granted", "granted_after_url"} =>
            After(k, "call_tool_sync") # {}

\* C21 (Scenario E): when a call made with a previously cached token is
\* rejected with a 401, the cached token is invalidated, get_token is retried
\* exactly once, and the outcome is that of the retry: with a fresh token the
\* rejected call is made again, with the pending signal the prompt is returned.
C21_RejectedTokenRetried ==
    /\ InvalidatedAndRetriedOnce
    /\ PendingRetryYieldsPrompt
    /\ FreshRetryCallsToolAgain

\* Scenario E with the pending signal at the retry
ScenarioEPending ==
    \E j \in RejectedCalls : \E k \in After(j, "get_token") : calls[k].out = "auth_url"

\* what get_token_sync returned, call by call
TokenReturns == {calls[k].out : k \in Idx("get_token_sync")}

\* the call of get_token that get_token_sync k ran
TokenCall(k) == calls[k - 1]

\* the last invocation was one of the agent, and it asked for a token
AgentAskedForToken == Idx("get_token") # {}

\* a cache hit returns the cached token and asks no broker, and a token that
\* was granted is the token the cache holds afterwards
CacheHitReturnsCached ==
    \A k \in Idx("get_token_sync") :
        /\ calls[k].out.held # None =>
            /\ calls[k].out.token = calls[k].out.held
            /\ calls[k].out.auth_url = None
            /\ TokenCall(k) = L("get_token", "cached")
        /\ calls[k].out.held = None => TokenCall(k).out # "cached"
        /\ calls[k].out.token # None => calls[k].out.kept = calls[k].out.token

\* invalidate_token has run for user_id in this step: in the agent, or called
\* directly
Invalidated(user_id) ==
    \/ /\ calls' # calls
       /\ args'.fn = "none"
       /\ BodyUser(request') = user_id
       /\ \E i \in 1..Len(calls') : calls'[i].fn = "invalidate_token"
    \/ /\ args' # args
       /\ args'.fn = "invalidate_token"
       /\ args'.user_id = user_id

\* a cached token stays as it is until invalidate_token(u) or the end of the
\* process; that its lifetime passes changes nothing
CachedUntilInvalidated ==
    \A user_id \in DOMAIN token_cache :
        \/ user_id \in DOMAIN token_cache' /\ token_cache'[user_id] = token_cache[user_id]
        \/ Invalidated(user_id)
        \/ token_cache' = EmptyMap

\* C22 (amended): get_token(u) with a cache entry for u returns the cached
\* token without a network call, whatever the age of the token; a granted
\* token is cached, and stays until invalidate_token(u) or the process ends.
C22_CachedTokenReturned == [](CacheHitReturnsCached) /\ [][CachedUntilInvalidated]_vars

\* a cache hit has happened, for a token whose lifetime has passed
C22_Witness ==
    /\ \E e \in TokenReturns : e.held # None /\ e.token = e.held
    /\ AgentUser \in expired_tokens

\* the agent runs in this step and get_token returns a token from the cache
\* whose lifetime had passed
ExpiredReturned ==
    /\ calls' # calls
    /\ BodyUser(request') \in expired_tokens
    /\ \E i \in 1..Len(calls') : calls'[i] = L("get_token", "cached")

\* C22: a cache hit returns the cached token without a network call, and an
\* expired cache entry is never returned.
C22_ExpiredNeverReturned == [](CacheHitReturnsCached) /\ [][~ExpiredReturned]_vars

\* the calls of get_token_sync whose grant was rejected after the broker had
\* handed out a URL
PendingReturns == {k \in Idx("get_token_sync") : TokenCall(k).out = "auth_url"}

\* such a call returns no token and the URL of the broker, leaves the cache
\* without an entry for the user, and call_tool goes on to return the prompt
PendingSignalReturned ==
    \A k \in PendingReturns :
        /\ calls[k].out.token = None
        /\ calls[k].out.auth_url = AuthUrl
        /\ calls[k].out.held = None
        /\ calls[k].out.kept = None
        /\ \E c \in After(k, "call_tool") : calls[c].out = "auth_required"
        /\ AgentUser \in DOMAIN pending_auth_sessions
        /\ pending_auth_sessions[AgentUser] = calls[k].out.auth_url

\* the agent runs in this step and no get_token of it is granted a token
RanWithoutGrant ==
    /\ calls' # calls
    /\ \E i \in 1..Len(calls') : calls'[i].fn = "get_token"
    /\ \A i \in 1..Len(calls') :
        calls'[i].fn = "get_token" => calls'[i].out \notin {"granted", "granted_after_url"}

\* a run without a grant writes nothing to the token cache
NoGrantNoWrite ==
    RanWithoutGrant =>
        \A user_id \in DOMAIN token_cache' :
            user_id \in DOMAIN token_cache /\ token_cache'[user_id] = token_cache[user_id]

\* C23: when the grant is rejected and an authorization URL was captured,
\* get_token records the URL as the user's pending authorization and returns
\* (None, that URL) instead of raising, and writes nothing to the token cache.
C23_PendingSignalRecorded == [](PendingSignalReturned) /\ [][NoGrantNoWrite]_vars

\* the pending signal was returned to one user while the cache holds the
\* token of another
C23_Witness ==
    /\ PendingReturns # {}
    /\ AgentUser \in DOMAIN pending_auth_sessions
    /\ DOMAIN token_cache # {}

\* the calls of get_token_sync that met a missing SDK, no workload token, or
\* a rejection without URL
FailedReturns ==
    {k \in Idx("get_token_sync") :
        TokenCall(k).out \in {"no_sdk", "no_workload_token", "rejected"}}

\* get_token raises nothing; a call that failed returns (None, None), leaves
\* the cache entry of the user as it was, and call_tool returns an error
UnavailableSignalReturned ==
    /\ \A k \in Idx("get_token_sync") : ~calls[k].out.raised
    /\ \A k \in FailedReturns :
        /\ calls[k].out.token = None
        /\ calls[k].out.auth_url = None
        /\ calls[k].out.kept = calls[k].out.held
        /\ \E c \in After(k, "call_tool") : calls[c].out = "error"
        /\ \E v \in After(k, "invocations") : calls[v].out = "200"

\* C24: get_token and get_token_sync never raise: when the workload token is
\* unavailable, the SDK is missing, or the grant is rejected without a URL,
\* they return (None, None), the cache stays as it was, and the tool call
\* returns an error result.
C24_UnavailableSignal == [](UnavailableSignalReturned) /\ [][NoGrantNoWrite]_vars

\* get_token has met the missing SDK while the token of another user is cached
C24_Witness ==
    /\ \E k \in FailedReturns : TokenCall(k).out = "no_sdk"
    /\ DOMAIN token_cache # {}

\* the last call was invalidate_token(user_id), called directly
InvalidateCalled == args.fn = "invalidate_token"

\* after invalidate_token(u) the cache holds no entry for u and every other
\* entry as before; the call returns None whether there was an entry or not,
\* and without one it changes nothing
InvalidateDropsEntry ==
    InvalidateCalled =>
        /\ response = Return(None)
        /\ args.user_id \notin DOMAIN token_cache
        /\ DOMAIN token_cache = DOMAIN args.cache \ {args.user_id}
        /\ \A user_id \in DOMAIN token_cache : token_cache[user_id] = args.cache[user_id]
        /\ args.user_id \notin DOMAIN args.cache => token_cache = args.cache

\* after every 401 of the tool invalidate_token is called, before anything
\* else, and the next get_token finds no entry
InvalidatedAfterRejection ==
    \A j \in Idx("call_tool_sync") :
        calls[j].out = "unauthorized" =>
            /\ calls[j + 1].fn = "invalidate_token"
            /\ \A k \in After(j, "get_token_sync") : calls[k].out.held = None

C26_TokenOrPendingNotBoth ==
    \A user_id \in Users :
        ~(user_id \in DOMAIN token_cache /\ user_id \in DOMAIN pending_auth_sessions)

\* the last invocation was the callback and the broker bound the session to
\* the user of the request
CompletedUser ==
    IF args.fn = "complete_resource_token_auth" /\ Idx("oauth_callback") # {}
       /\ response.ret.statusCode = 200
    THEN {args.userIdentifier.userId} ELSE {}

\* C27: a pending authorization recorded for a user is deleted when the
\* Authorization Completer finishes that user's flow successfully: after a
\* successful completion no pending authorization remains for the user.
C27_PendingConsumed ==
    \A user_id \in CompletedUser : user_id \notin DOMAIN pending_auth_sessions

\* the last invocation was one of the callback Lambda
CallbackHandled == Idx("oauth_callback") # {}

\* a query parameter of the request of the callback, None when it is absent
QueryParam(name) ==
    IF "queryStringParameters" \notin DOMAIN request THEN None
    ELSE IF "py_none" \in DOMAIN request.queryStringParameters THEN None
    ELSE IF name \in DOMAIN request.queryStringParameters
    THEN request.queryStringParameters[name] ELSE None

\* the session reference or the user id is absent or empty
ParameterMissing ==
    \/ QueryParam("session_id") \in {None, EmptyStr}
    \/ QueryParam("state") \in {None, EmptyStr}

\* C28: when the callback lacks session_id or state, or either is empty, the
\* Authorization Completer returns an error response and does not call the
\* broker's completion operation.
C28_MissingParameterNoCompletion ==
    (CallbackHandled /\ ParameterMissing) =>
        /\ response.exc = FALSE
        /\ response.ret.statusCode = 400
        /\ Idx("complete_resource_token_auth") = {}
        /\ args = NoCall

\* a callback with a session reference and an empty user id was answered
C28_Witness ==
    /\ CallbackHandled
    /\ QueryParam("session_id") = SessionUri(SlackUser)
    /\ QueryParam("state") = EmptyStr
    /\ response.ret.statusCode = 400

\* what the broker answered to the callback, if it was called
Completions == {calls[i].out : i \in Idx("complete_resource_token_auth")}

\* the broker was called with the session reference and the user id of the
\* request, and bound the session
CompletedAsRequested ==
    /\ Completions = {"ok"}
    /\ args.fn = "complete_resource_token_auth"
    /\ args.sessionUri = QueryParam("session_id")
    /\ args.userIdentifier = [userId |-> QueryParam("state")]

\* the response is HTML with status 200 or 400, and 200 goes with a
\* completion that succeeded
HtmlAnswer ==
    /\ response.exc = FALSE
    /\ response.ret.statusCode \in {200, 400}
    /\ response.ret.headers = [ContentType |-> <<"text/html; charset=utf-8">>]
    /\ response.ret.statusCode = 200 <=> CompletedAsRequested

\* the page of an error message
ErrorPage(error_message) == <<"<html>", "error">> \o error_message \o <<"</html>">>

\* the broker's failures and their pages: validation, access denied and not
\* found have a page of their own, anything else the page of the unexpected
\* error
FailurePages ==
    /\ "validation" \in Completions =>
        response.ret.body = ErrorPage(<<"validation error: ", "validation">>)
    /\ "access_denied" \in Completions =>
        response.ret.body = ErrorPage(<<"access denied">>)
    /\ "not_found" \in Completions =>
        response.ret.body = ErrorPage(<<"session not found, maybe expired">>)
    /\ "error" \in Completions =>
        response.ret.body = ErrorPage(<<"unexpected error: ", "error">>)

\* C29 (amended): the Authorization Completer never raises and answers 200 or
\* 400 with content-type text/html; charset=utf-8; 200 iff the completion was
\* called with the request's session reference and user id and succeeded; a
\* broker validation error, access denied and not found have each a 400 page
\* of their own, every other failure of the broker the page of the unexpected
\* error with the text of the exception.
C29_HtmlAnswers == CallbackHandled => (HtmlAnswer /\ FailurePages)

\* the broker refused a session that another user opened
C29_Witness ==
    /\ CallbackHandled
    /\ "access_denied" \in Completions
    /\ response.ret.statusCode = 400

\* the page is that of the generic error
GenericPage == Contains(response.ret.body, <<"unexpected error: ">>)

\* C29: the Authorization Completer answers 200 or 400 as HTML, 200 iff the
\* completion succeeded; not found and access denied have each a 400 page of
\* their own, and every other failure collapses to one generic 400 error.
C29_OneGenericError ==
    CallbackHandled =>
        /\ HtmlAnswer
        /\ (Completions \cap {"validation", "error"} # {}) => GenericPage

\* the last invocation was one of the Worker for a mention by a user the
\* broker holds a grant for (the Authorization Completer has bound the user's
\* session before), and AgentCore Runtime answered
AttemptAfterCompletion ==
    /\ WorkerHandled
    /\ deployment = "interfaces"
    /\ RequestMentionsBot
    /\ agentcore_user_id(Get(request, "team_id", EmptyStr),
                         Get(request, "user_id", EmptyStr)) \in token_vault
    /\ \E v \in Idx("invoke_agent_runtime") : calls[v].out # "error"

\* C30: after the Authorization Completer has succeeded for a user, the next
\* Processing Stage attempt for that user acquires a token and reaches the
\* reasoning and tool call instead of showing the authorization prompt again.
C30_NextAttemptAcquiresToken ==
    AttemptAfterCompletion =>
        /\ Idx("strands_agent") # {}
        /\ Idx("get_token") # {}
        /\ ~AuthPromptShown

----------------------------------------------------------------------------
(* Properties of the Processing Stage: failures, bot identity, reply text, *)
(* threads and concurrent invocations                                      *)

\* the reasoning call of the last invocation failed: invoke_agent_runtime did
\* not reach the agent, or raised the agent's answer
EngineFailed ==
    /\ WorkerHandled
    /\ \E i \in Idx("invoke_agent_runtime") : calls[i].out \in {"error", "raised"}

\* the attempts of the last invocation on the reasoning engine
EngineAttempts == {i \in Idx("invoke_agent_runtime") : calls[i].out \in {"error", "called"}}

\* the interim message the last invocation posted: the newest message
InterimMessage == slack_messages[Len(slack_messages)]

\* C31: when the reasoning call fails after the interim message was posted, the
\* Worker returns a terminal status, has made one attempt on the engine, and the
\* interim message no longer shows the working text but a failure message.
C31_FailureContainedAndShown ==
    EngineFailed =>
        /\ response.statusCode = 500
        /\ Cardinality(EngineAttempts) = 1
        /\ Cardinality(Posts) = 1
        /\ InterimMessage.text # Thinking

\* the part of C31 the Worker keeps: the failure is contained and not retried,
\* and the interim message is left as it was posted
FailureContained ==
    EngineFailed =>
        /\ response = worker_except
        /\ Cardinality(EngineAttempts) = 1
        /\ Cardinality(Posts) = 1
        /\ Idx("chat.update") = {}
        /\ InterimMessage.text = Thinking /\ InterimMessage.edits = 0

\* the payload of the last invocation lacks field, or holds an empty value for it
FieldMissing(field) ==
    IF field = "event" THEN "event" \notin DOMAIN request
    ELSE ~Truthy(Get(request, field, EmptyStr))

\* the Worker of the interfaces stack has handled the payload
InterfacesHandled == WorkerHandled /\ deployment = "interfaces"

\* the last invocation posted nothing and did not call the reasoning engine
AbortedWithoutReply ==
    /\ Idx("chat.postMessage") = {}
    /\ Idx("invoke_agent_runtime") = {}

\* C32: an invocation on a payload that lacks the user id, the team id, the
\* channel id, the thread id or the event snapshot posts no message and does not
\* call the reasoning engine.
C32_MalformedPayloadAborts ==
    (InterfacesHandled /\ \E f \in RequiredFields : FieldMissing(f))
    => (Posts = {} /\ Idx("invoke_agent_runtime") = {})

\* what the Worker does on such payloads: without the event snapshot it does not
\* respond, without the channel id Slack refuses the post; in both cases nothing
\* is posted and the engine is not called
NoEventOrChannelNoReply ==
    (InterfacesHandled /\ (FieldMissing("event") \/ FieldMissing("channel_id")))
    => (Posts = {} /\ Idx("invoke_agent_runtime") = {})

\* the identity lookups of the last invocation, and those that gave no id
Lookups == Idx("auth.test")
FailedLookups == {i \in Idx("auth.test") : calls[i].out # "ok"}

\* the invocation that ends in the next state made an identity lookup, or
\* one that gave no id
LooksUpNext == \E i \in 1..Len(calls') : calls'[i].fn = "auth.test"
LookupFailsNext ==
    \E i \in 1..Len(calls') : calls'[i].fn = "auth.test" /\ calls'[i].out # "ok"

MissingCredentials == WorkerResponse(500, <<"Missing Slack credentials">>)
IdentityUnresolved == WorkerResponse(500, <<"Failed to get bot user ID">>)

\* what the process holds is no id or the id of the bot, never an empty one;
\* an invocation whose lookup gave no id ends there, without a post and without
\* a reasoning call
UnresolvedAborts ==
    /\ worker_bot_id \in {None, BotId}
    /\ (InterfacesHandled /\ FailedLookups # {})
        => (response = IdentityUnresolved /\ AbortedWithoutReply)
    /\ (InterfacesHandled /\ response = IdentityUnresolved) => FailedLookups # {}

\* an id once held stays until the process ends, and no invocation that finds
\* it looks it up again; a lookup that gave no id leaves none behind, and the
\* next invocation that comes to the identity step looks it up again
ResolvedOncePerProcess ==
    /\ worker_bot_id # None =>
        /\ worker_bot_id' \in {worker_bot_id, None}
        /\ worker_bot_id' = worker_bot_id => ~LooksUpNext
    /\ worker_bot_id = None =>
        /\ worker_bot_id' # None => (LooksUpNext /\ ~LookupFailsNext)
        /\ LookupFailsNext => worker_bot_id' = None
        /\ (deployment = "interfaces" /\ ~IsNoneDict(response')
            /\ response' # MissingCredentials) => LooksUpNext

\* C33: the Worker resolves the bot identity at most once per process: only a
\* non-empty result is cached, no later invocation of the process looks it up
\* again, a failure is not cached and the next invocation retries; when the
\* identity is unresolvable the invocation ends without a post and without a
\* reasoning call.
C33_BotIdentityOncePerProcess == [](UnresolvedAborts) /\ [][ResolvedOncePerProcess]_vars

\* an invocation that found the id in the process and went on to post, without
\* a lookup
C33_Witness ==
    /\ InterfacesHandled
    /\ worker_bot_id = BotId
    /\ Lookups = {}
    /\ Posts # {}

\* an invocation whose lookup gave no id
C33_WitnessUnresolved ==
    /\ InterfacesHandled
    /\ response = IdentityUnresolved
    /\ worker_bot_id = None

\* the Worker has written the reply of the engine into the interim message
Replied == args.fn = "invoke_agent_runtime" /\ WorkerSucceeded

\* the JSON document the answer of the engine carries: that of the last data
\* line of a stream, or the body of a JSON answer; None where there is none
ReplyDocument(resp) ==
    IF Contains(resp.contentType, TextEventStream)
    THEN IF data_chunks(resp.response) # <<>>
            /\ data_chunks(resp.response)[Len(data_chunks(resp.response))].kind = "json"
         THEN data_chunks(resp.response)[Len(data_chunks(resp.response))].doc
         ELSE NoneDict
    ELSE IF resp.contentType = ApplicationJson
            /\ Len(SelectSeq(resp.response, IsNonEmptyLine)) = 1
            /\ ~SelectSeq(resp.response, IsNonEmptyLine)[1].data
            /\ SelectSeq(resp.response, IsNonEmptyLine)[1].chunk.kind = "json"
    THEN SelectSeq(resp.response, IsNonEmptyLine)[1].chunk.doc
    ELSE NoneDict

\* the message of a document of the engine: at the top, as _extract_text
\* describes it, or under "output", as agent.py returns it
DocMessage(doc) ==
    IF "output" \in DOMAIN doc THEN Get(doc.output, "message", EmptyDict)
    ELSE Get(doc, "message", EmptyDict)

\* the reply text a document holds: the text of the first content block of its
\* message, or nothing
ReplyText(doc) ==
    IF ~IsDict(doc) THEN EmptyStr
    ELSE IF ~IsDict(DocMessage(doc)) THEN EmptyStr
    ELSE IF Get(DocMessage(doc), "content", <<>>) # <<>>
            /\ Truthy(Get(Get(DocMessage(doc), "content", <<>>)[1], "text", EmptyStr))
    THEN Get(DocMessage(doc), "content", <<>>)[1].text
    ELSE EmptyStr

\* the engine answered with a stream without data, or with a JSON object
AnswerWellFormed(resp) ==
    \/ Contains(resp.contentType, TextEventStream) /\ data_chunks(resp.response) = <<>>
    \/ ("py_none" \notin DOMAIN ReplyDocument(resp)
        /\ "py_str" \notin DOMAIN ReplyDocument(resp))

\* C34: the text written into the interim message is the reply text of the
\* answer of the engine and is never empty: where the answer has no chunks, an
\* empty text or no text to extract, the default text is written.
C34_ReplyTextOrDefault ==
    Replied =>
        /\ InterimMessage.text # EmptyStr
        /\ AnswerWellFormed(args.response) =>
            InterimMessage.text =
                IF ReplyText(ReplyDocument(args.response)) # EmptyStr
                THEN ReplyText(ReplyDocument(args.response))
                ELSE NoResponse

\* what the Worker does write: the text _parse_response returned, or the
\* default text where that is empty; never the empty text
WrittenAsParsed ==
    Replied =>
        /\ InterimMessage.text # EmptyStr
        /\ InterimMessage.text = agent_response(parse_response(args.response))
        /\ InterimMessage.edits = 1

\* the root of the thread of an event: its thread_ts, or its own ts where it is
\* in no thread
ThreadRoot(slack_event) ==
    IF "thread_ts" \in DOMAIN slack_event THEN slack_event.thread_ts ELSE slack_event.ts

\* two events are of one thread: of one channel, with one root
SameThread(e1, e2) == e1.channel = e2.channel /\ ThreadRoot(e1) = ThreadRoot(e2)

\* the sessions of two events have been derived
SessionsDerived == args.fn = "session_id" /\ result # Return(FALSE)

\* C35 as stated: two events of one thread (the root message, ts = T, and the
\* replies, thread_ts = T) are given the same session id, and two events of
\* different threads are given different session ids.
C35_SameThreadSameSession ==
    SessionsDerived =>
        /\ ~result.exc
        /\ SameThread(args.first, args.second) <=> (result.first = result.second)

\* C35 (amended): the session id is a function of the timestamp of the thread
\* root alone: two events of one thread are given the same session id, two
\* events whose thread roots have different timestamps are given different
\* session ids, and two threads of different channels whose roots have the same
\* timestamp are given one session id.
C35_SessionOfThreadRoot ==
    SessionsDerived =>
        /\ ~result.exc
        /\ SameThread(args.first, args.second) => result.first = result.second
        /\ (ThreadRoot(args.first) = ThreadRoot(args.second))
            <=> (result.first = result.second)

\* the root message of a thread and a reply in it have been given one session
C35_Witness ==
    /\ SessionsDerived
    /\ "thread_ts" \notin DOMAIN args.first
    /\ "thread_ts" \in DOMAIN args.second
    /\ SameThread(args.first, args.second)
    /\ args.second.ts # args.first.ts
    /\ result.first = result.second

\* the last invocation of the Worker, on a payload with all its fields, posted
\* its interim message
InterimPosted ==
    /\ InterfacesHandled
    /\ \A f \in RequiredFields : ~FieldMissing(f)
    /\ Posts # {}

\* the interim message of the last invocation is the only one it touched: where
\* it made an update, the message it posted shows it
HandleOfOwnPost ==
    InterimPosted =>
        /\ Edits # {} => InterimMessage.edits = 1
        /\ \A i \in 1..(Len(slack_messages) - 1) :
            slack_messages[i].ts # InterimMessage.ts

\* C36: the interim message is posted with the root of the thread of the event
\* (its thread_ts, or its own ts where it has none) as thread parent, the
\* thread the session id was derived from, and the later update goes to the
\* message of that post.
C36_InterimInThreadOfEvent ==
    InterimPosted =>
        /\ InterimMessage.thread_ts = ThreadRoot(request.event)
        /\ InterimMessage.thread_ts = request.thread_id
        /\ HandleOfOwnPost

\* what the Worker does: the thread parent of the interim message is the ts of
\* the event itself, also where the event is a reply in a thread
PostedUnderEventTs ==
    InterimPosted =>
        /\ InterimMessage.thread_ts = request.event.ts
        /\ InterimMessage.channel = request.channel_id
        /\ HandleOfOwnPost

\* the event of the request the Receiver has handled, and whether it is of a
\* message the bot posted or edited
HandledEvent == request.body.doc.event
ReceiverHandled == "httpMethod" \in DOMAIN request /\ ~IsNoneDict(response)
OfBot(slack_event) ==
    \/ Get(slack_event, "user", None) = BotId
    \/ ("message" \in DOMAIN slack_event /\ slack_event.message.user = BotId)

\* a message the bot posted or edited is not dispatched, and one message of a
\* user makes the bot post one message at most
NoDispatchOfOwnMessages ==
    /\ (ReceiverHandled /\ OfBot(HandledEvent))
        => (Idx("lambda.invoke") = {} /\ worker_queue = <<>>)
    /\ Len(slack_messages) <= 1
    /\ Len(worker_queue) <= 1

\* nothing is left to do: Slack has sent all its events, no payload waits and
\* no invocation is under way
Quiescent ==
    /\ args.fn = "slack"
    /\ SlackOutbox \subseteq args.sent
    /\ worker_queue = <<>>
    /\ Idle

\* C37: no reply loop: a message the bot posted or edited never causes a
\* dispatch, the bot posts a bounded number of messages for one message of a
\* user, and the system becomes quiescent in the end.
C37_NoReplyLoop == [](NoDispatchOfOwnMessages) /\ <>[](Quiescent)

\* the bot has answered, Slack has sent the post and the edit back, the
\* Receiver has dropped the last of them and nothing is left to do
C37_Witness ==
    /\ Quiescent
    /\ Len(slack_messages) = 1
    /\ slack_messages[1].edits = 1
    /\ ReceiverHandled /\ OfBot(HandledEvent)
    /\ args.sent = {<<"user", 0>>, <<"post", 1>>, <<"edit", 1>>}

\* the user an invocation was made for
UserOf(i) == Get(args.inv[i].input, "user_id", DefaultUser)

\* every token passed to a tool, held by an invocation or kept in the cache
\* was granted for the user of that invocation or of that cache entry
TokensOfOwnUser ==
    /\ \A i \in Invocations :
        /\ args.inv[i].injected # NoToken => args.inv[i].injected.user = UserOf(i)
        /\ args.inv[i].token # NoToken => args.inv[i].token.user = UserOf(i)
        /\ args.inv[i].user_id # None => args.inv[i].user_id = UserOf(i)
    /\ \A u \in DOMAIN token_cache : token_cache[u].user = u

\* the user id of the context is that of the invocation while it runs and the
\* default before and after it
UserIdRestored ==
    \A i \in Invocations :
        args.context[i] = IF args.inv[i].pc \in {"invoke_agent", "done"}
                          THEN DefaultUser ELSE UserOf(i)

\* C38: tokens are isolated per user: the token passed to a tool call of an
\* invocation of user A was granted for A, from A's cache entry or A's grant,
\* under every interleaving of invocations, and the user id in effect is
\* restored when an invocation ends.
C38_TokensIsolatedPerUser == TokensOfOwnUser /\ UserIdRestored

\* two invocations of different users have run side by side, each has passed
\* a token to its tool, one of them out of the cache, and both have ended
C38_Witness ==
    /\ args.fn = "invocations"
    /\ UserOf(1) # UserOf(2)
    /\ \A i \in {1, 2} : args.inv[i].pc = "done" /\ args.inv[i].injected # NoToken
    /\ DOMAIN token_cache = {UserOf(1), UserOf(2)}

\* the cache holds one token for a user at most: it is a dict keyed by user id
OneTokenPerUser ==
    \A u \in DOMAIN token_cache : token_cache[u].user \in {u} /\ token_cache[u] # NoToken

\* no get_token returns from the cache a token whose invalidation was
\* completed before, and the cache holds no such token
NoRejectedTokenFromCache ==
    /\ \A i \in Invocations : ~args.inv[i].stale
    /\ \A u \in DOMAIN token_cache : token_cache[u] \notin args.invalidated

\* C39: concurrent acquisitions and invalidations for one user are free of
\* hazards without a lock: the cache holds one token for a user at most, and
\* once invalidate(u) has completed after the rejection of token T no later
\* getToken(u) returns T from the cache, as an acquisition under way during
\* the invalidation cannot store T again.
C39_NoReinstallOfRejectedToken == OneTokenPerUser /\ NoRejectedTokenFromCache

\* the Worker that posted the k-th message
PostersOf(k) == {i \in Invocations : args.inv[i].posted = k}

\* the handle a Worker passed to chat.update is the ts of its own post, in the
\* channel of its own post, and not empty
UpdatesOwnHandle ==
    \A i \in Invocations :
        args.inv[i].updated # None =>
            /\ Truthy(args.inv[i].updated)
            /\ args.inv[i].posted \in 1..Len(slack_messages)
            /\ args.inv[i].updated = slack_messages[args.inv[i].posted].ts
            /\ args.inv[i].event.channel_id = slack_messages[args.inv[i].posted].channel

\* a message shows the interim text or the text its own Worker gave it, and
\* is edited by that Worker alone
EditedByPosterAlone ==
    \A k \in 1..Len(slack_messages) :
        /\ Cardinality(PostersOf(k)) = 1
        /\ slack_messages[k].edits <= 1
        /\ \A i \in PostersOf(k) :
            /\ slack_messages[k].text \in {Thinking, args.inv[i].agent_response}
            /\ slack_messages[k].edits = 1 => args.inv[i].updated # None

\* C40: under every interleaving of concurrent Workers, those of one thread
\* included, each Worker updates the interim message it posted itself alone:
\* the handle passed to the update is the one its own post returned, never
\* that of another Worker's message and never an empty one.
C40_UpdatesOwnInterimMessage == UpdatesOwnHandle /\ EditedByPosterAlone

\* two Workers of one thread have both posted before either updated, and each
\* has updated its own message
C40_Witness ==
    /\ args.fn = "workers"
    /\ args.inv[1].event = args.inv[2].event
    /\ args.inv[1].pc = "done" /\ args.inv[2].pc = "done"
    /\ args.inv[1].posted = 1 /\ args.inv[2].posted = 2
    /\ slack_messages[1].text = AnswerTo(1) /\ slack_messages[2].text = AnswerTo(2)
    /\ slack_messages[1].edits = 1 /\ slack_messages[2].edits = 1

====
